---- MODULE Spec2Model ----
(***************************************************************************)
(* A model of zapj/zaproxy: the Basic-auth cache and credential validator  *)
(* (http_proxy/http_proxy_auth.go), the server's request handler           *)
(* (cmd/zaproxy/cmd/http.go, cmd/commands/daemon.go) and the pure helpers  *)
(* of the reverse proxy (removeHeaders, the director of NewReverseProxy).  *)
(*                                                                         *)
(* Text is a sequence of one-character strings; decoded bytes are the      *)
(* integers 0..255.  Time is counted in minutes.                           *)
(***************************************************************************)
EXTENDS Integers, Sequences, FiniteSets, TLC

(***************************************************************************)
(* Bounds of the model.                                                    *)
(***************************************************************************)
\* the clock runs from 0 to MaxTime minutes
MaxTime == 6
\* request goroutines running at once
NumProcs == 2

(***************************************************************************)
(* Program constants.                                                      *)
(***************************************************************************)
\* cacheDuration = 5 * time.Minute
CacheDuration == 5
\* time.NewTicker(time.Minute)
SweepPeriod == 1
\* isValidCredentials: len(username) <= 64
MaxUsernameLen == 64
\* isValidCredentials: len(password) <= 128
MaxPasswordLen == 128

(***************************************************************************)
(* Characters and bytes.                                                   *)
(***************************************************************************)
Upper == <<"A","B","C","D","E","F","G","H","I","J","K","L","M",
           "N","O","P","Q","R","S","T","U","V","W","X","Y","Z">>
Lower == <<"a","b","c","d","e","f","g","h","i","j","k","l","m",
           "n","o","p","q","r","s","t","u","v","w","x","y","z">>
Digits == <<"0","1","2","3","4","5","6","7","8","9">>

\* the alphabet of base64.StdEncoding
encodeStd == Upper \o Lower \o Digits \o <<"+","/">>

Range(s) == {s[i] : i \in 1..Len(s)}

IndexIn(s, c) == IF c \in Range(s) THEN CHOOSE i \in 1..Len(s) : s[i] = c ELSE 0

ToLower(c) == IF c \in Range(Upper) THEN Lower[IndexIn(Upper, c)] ELSE c

ToUpper(c) == IF c \in Range(Lower) THEN Upper[IndexIn(Lower, c)] ELSE c

\* strings.EqualFold on ASCII text
EqualFold(s, t) ==
    /\ Len(s) = Len(t)
    /\ \A i \in 1..Len(s) : ToLower(s[i]) = ToLower(t[i])

HasPrefix(s, pre) == Len(s) >= Len(pre) /\ SubSeq(s, 1, Len(pre)) = pre

HasSuffix(s, suf) ==
    Len(s) >= Len(suf) /\ SubSeq(s, Len(s) - Len(suf) + 1, Len(s)) = suf

\* s[n:] of Go, n counted from 0
From(s, n) == SubSeq(s, n + 1, Len(s))

Rep(x, n) == [i \in 1..n |-> x]

\* the first position of x in s, 0 when absent
Index(s, x) ==
    IF x \in Range(s)
    THEN CHOOSE i \in 1..Len(s) : s[i] = x /\ \A j \in 1..(i - 1) : s[j] # x
    ELSE 0

\* bytes of credentials
Colon == 58
NUL == 0
LF == 10
CR == 13

(***************************************************************************)
(* base64.StdEncoding, as BasicAuth and parseBasicAuth use it.             *)
(***************************************************************************)
B64Char(v) == encodeStd[v + 1]

B64Val(c) == IndexIn(encodeStd, c) - 1

\* every 3 bytes give 4 characters; a short last group is padded with "="
EncodeToString(b) ==
    LET n == Len(b)
        At(j) == IF j <= n THEN b[j] ELSE 0
        CharAt(i) ==
            LET g == 3 * ((i - 1) \div 4)
                k == (i - 1) % 4
            IN IF k = 0 THEN B64Char(At(g + 1) \div 4)
               ELSE IF k = 1
                    THEN B64Char((At(g + 1) % 4) * 16 + At(g + 2) \div 16)
               ELSE IF k = 2
                    THEN IF g + 2 > n THEN "="
                         ELSE B64Char((At(g + 2) % 16) * 4 + At(g + 3) \div 64)
               ELSE IF g + 3 > n THEN "=" ELSE B64Char(At(g + 3) % 64)
    IN [i \in 1..(4 * ((n + 2) \div 3)) |-> CharAt(i)]

\* the decoder skips "\r" and "\n"
StripNewlines(s) == SelectSeq(s, LAMBDA c : c \notin {"\r", "\n"})

DecodeErr == [err |-> TRUE, bytes |-> <<>>]

\* one quantum of four characters; only the last one may be padded
DecodeQuad(q, last) ==
    LET v == [i \in 1..4 |-> B64Val(q[i])] IN
    IF v[1] < 0 \/ v[2] < 0 THEN DecodeErr
    ELSE IF q[3] = "=" THEN
        IF last /\ q[4] = "="
        THEN [err |-> FALSE, bytes |-> <<v[1] * 4 + v[2] \div 16>>]
        ELSE DecodeErr
    ELSE IF v[3] < 0 THEN DecodeErr
    ELSE IF q[4] = "=" THEN
        IF last
        THEN [err |-> FALSE,
              bytes |-> <<v[1] * 4 + v[2] \div 16,
                          (v[2] % 16) * 16 + v[3] \div 4>>]
        ELSE DecodeErr
    ELSE IF v[4] < 0 THEN DecodeErr
    ELSE [err |-> FALSE,
          bytes |-> <<v[1] * 4 + v[2] \div 16,
                      (v[2] % 16) * 16 + v[3] \div 4,
                      (v[3] % 4) * 64 + v[4]>>]

DecodeQuads(s) ==
    LET n == Len(s) \div 4
        Quad(g) == DecodeQuad(SubSeq(s, 4 * g - 3, 4 * g), g = n)
    IN IF Len(s) % 4 # 0 \/ \E g \in 1..n : Quad(g).err THEN DecodeErr
       ELSE IF n = 0 THEN [err |-> FALSE, bytes |-> <<>>]
       ELSE LET outLen == 3 * (n - 1) + Len(Quad(n).bytes)
            IN [err |-> FALSE,
                bytes |-> [j \in 1..outLen |->
                              Quad(((j - 1) \div 3) + 1).bytes[((j - 1) % 3) + 1]]]

DecodeString(s) == DecodeQuads(StripNewlines(s))

(***************************************************************************)
(* http_proxy_auth.go: the credential validator.                           *)
(***************************************************************************)
\* BasicAuth(username, password)
BasicAuth(username, password) ==
    EncodeToString(username \o <<Colon>> \o password)

ContainsAny(s, bytes) == \E i \in 1..Len(s) : s[i] \in bytes

IsValidCredentialsNoUserLimit(username, password) ==
    /\ Len(username) > 0
    /\ Len(password) <= MaxPasswordLen
    /\ ~ContainsAny(username, {NUL, LF, CR})
    /\ ~ContainsAny(password, {NUL, LF, CR})

isValidCredentials(username, password) ==
    /\ Len(username) > 0 /\ Len(username) <= MaxUsernameLen
    /\ Len(password) <= MaxPasswordLen
    /\ ~ContainsAny(username, {NUL, LF, CR})
    /\ ~ContainsAny(password, {NUL, LF, CR})

prefix == <<"B","a","s","i","c"," ">>

\* the (username, password, ok) tuple of a failed parse
Failed == [username |-> <<>>, password |-> <<>>, ok |-> FALSE]

parseBasicAuth(auth) ==
    IF Len(auth) < Len(prefix) \/ ~EqualFold(SubSeq(auth, 1, Len(prefix)), prefix)
    THEN Failed
    ELSE LET c == DecodeString(From(auth, Len(prefix))) IN
         IF c.err THEN Failed
         ELSE LET cs == c.bytes
                  at == Index(cs, Colon)
              IN IF at = 0 THEN Failed
                 ELSE LET username == SubSeq(cs, 1, at - 1)
                          password == From(cs, at)
                      IN IF ~isValidCredentials(username, password)
                         THEN Failed
                         ELSE [username |-> username, password |-> password,
                               ok |-> TRUE]

\* subtle.ConstantTimeCompare: the OR of the bytewise XORs is zero
RECURSIVE Xor(_, _)
Xor(a, b) ==
    IF a = 0 /\ b = 0 THEN 0
    ELSE (IF a % 2 = b % 2 THEN 0 ELSE 1) + 2 * Xor(a \div 2, b \div 2)

RECURSIVE Or(_, _)
Or(a, b) ==
    IF a = 0 /\ b = 0 THEN 0
    ELSE (IF a % 2 = 1 \/ b % 2 = 1 THEN 1 ELSE 0) + 2 * Or(a \div 2, b \div 2)

RECURSIVE XorFold(_, _, _, _)
XorFold(x, y, i, v) ==
    IF i > Len(x) THEN v
    ELSE XorFold(x, y, i + 1, Or(v, Xor(x[i], y[i])))

ConstantTimeCompare(x, y) ==
    IF Len(x) # Len(y) THEN 0
    ELSE IF XorFold(x, y, 1, 0) = 0 THEN 1 ELSE 0

CompareCredentialsEither(inputUser, inputPass, expectedUser, expectedPass) ==
    LET userMatch == ConstantTimeCompare(inputUser, expectedUser) = 1
        passMatch == ConstantTimeCompare(inputPass, expectedPass) = 1
    IN userMatch \/ passMatch

CompareCredentials(inputUser, inputPass, expectedUser, expectedPass) ==
    LET userMatch == ConstantTimeCompare(inputUser, expectedUser) = 1
        passMatch == ConstantTimeCompare(inputPass, expectedPass) = 1
    IN userMatch /\ passMatch

(***************************************************************************)
(* The state.                                                              *)
(***************************************************************************)
VARIABLES
    now,        \* time.Now(), in minutes
    cache,      \* authCache.cache: raw token -> authEntry
    mu,         \* authCache.mu: [readers: holders of the shared lock, writer]
    pc,         \* where each request goroutine is
    tok,        \* the Proxy-Authorization value each goroutine carries
    res,        \* the (username, password, ok) tuple GetBasicAuth gives it
    hit,        \* whether that tuple came from the cache
    parsed,     \* whether the call ran parseBasicAuth
    sweeper,    \* the goroutine InitAuthCache starts: [pc, at, todo, next]
    tokens,     \* the tokens clients send in this run
    status,     \* the status the handler wrote for each request, 0 when none
    served,     \* whether the handler invoked ReverseProxy.ServeHTTP
    cmp,        \* a CompareCredentials call: its arguments and result
    hdr,        \* a removeHeaders call: the header before and after
    dir,        \* a director call: target, inbound request, outbound request
    cls,        \* an isClosedConnError call: the error and the result
    rp,         \* a ReverseProxy.ServeHTTP call: its request, the client's
                \* ResponseWriter, the hooks of the ReverseProxy
    fwd,        \* the ProxyHTTP call of that request and its goroutines
    tun         \* the ProxyHTTPS call of that request, its connections
                \* and relay goroutines

authVars == <<now, cache, mu, pc, tok, res, hit, parsed, sweeper, tokens>>
handlerVars == <<status, served>>
proxyVars == <<cls, rp, fwd, tun>>
pureVars == <<cmp, hdr, dir, cls, rp, fwd, tun>>
vars == <<now, cache, mu, pc, tok, res, hit, parsed, sweeper, tokens,
          status, served, cmp, hdr, dir, cls, rp, fwd, tun>>

Procs == 1..NumProcs

\* credentials as bytes: "u", "p", "x"
User == <<117>>
Pass == <<112>>
Other == <<120>>

\* "Basic dTpw": user "u", password "p"
ValidToken == prefix \o BasicAuth(User, Pass)
\* "Basic dQ==": no ":" in the decoded bytes
MalformedToken == prefix \o EncodeToString(User)
EmptyToken == <<>>

AuthTokens == {EmptyToken, ValidToken, MalformedToken}

\* the --username and --password flags of the server: "u" and "p"
FlagUsername == User
FlagPassword == Pass

UserOnlyToken == prefix \o BasicAuth(User, Other)

ServerTokens == {EmptyToken, ValidToken, UserOnlyToken}

(***************************************************************************)
(* Tokens of every malformed kind, built from what makes them malformed,   *)
(* and well-formed tokens at the limits.                                   *)
(***************************************************************************)
NoPrefixTokens ==
    { <<"B","e","a","r","e","r"," ">> \o BasicAuth(User, Pass),
      <<"B","a","s","i","c">>,
      <<"B","a","s","i","c",":">> \o BasicAuth(User, Pass),
      BasicAuth(User, Pass) }

BadBase64Tokens ==
    { prefix \o <<"d","T","p">>,
      prefix \o <<"d","!","p","w">>,
      prefix \o <<"d","T","p","w","=">>,
      prefix \o <<"d","Q","=","=","d","T","p","w">>,
      prefix \o <<"d","T","=","w">> }

NoColonTokens ==
    { prefix, prefix \o EncodeToString(User), prefix \o EncodeToString(User \o Pass) }

EmptyUsernameTokens ==
    { prefix \o BasicAuth(<<>>, Pass), prefix \o BasicAuth(<<>>, <<>>) }

LongUsernameTokens ==
    { prefix \o BasicAuth(Rep(117, MaxUsernameLen + 1), Pass) }

LongPasswordTokens ==
    { prefix \o BasicAuth(User, Rep(112, MaxPasswordLen + 1)) }

ControlByteTokens ==
    { prefix \o BasicAuth(<<117, b>>, Pass) : b \in {NUL, CR, LF} }
    \cup { prefix \o BasicAuth(User, <<b, 112>>) : b \in {NUL, CR, LF} }

MalformedTokens ==
    NoPrefixTokens \cup BadBase64Tokens \cup NoColonTokens
    \cup EmptyUsernameTokens \cup LongUsernameTokens \cup LongPasswordTokens
    \cup ControlByteTokens

WellFormedTokens ==
    { ValidToken,
      <<"b","A","S","I","C"," ">> \o BasicAuth(User, Pass),
      prefix \o BasicAuth(User, <<>>),
      prefix \o BasicAuth(User, <<Colon, 112>>),
      prefix \o BasicAuth(Rep(117, MaxUsernameLen), Rep(112, MaxPasswordLen)) }

ParseTokens == MalformedTokens \cup WellFormedTokens

\* parseBasicAuth on the tokens of the model, computed once
KnownTokens == AuthTokens \cup ServerTokens \cup ParseTokens
ParseMemo == [t \in KnownTokens |-> parseBasicAuth(t)]

(***************************************************************************)
(* http_proxy_auth.go: the cache.                                          *)
(***************************************************************************)
\* time.Time.Before, time.Time.After
NotAfter(t, u) == t <= u

Before(t, u) == t < u

After(t, u) == t > u

\* exists && time.Now().Before(entry.expireAt)
LookupHit(c, auth, t) == auth \in DOMAIN c /\ Before(t, c[auth].expireAt)

HitResultIgnoringValid(entry) ==
    [username |-> entry.username, password |-> entry.password, ok |-> TRUE]

\* what a hit returns
HitResult(entry) ==
    IF entry.valid
    THEN [username |-> entry.username, password |-> entry.password, ok |-> TRUE]
    ELSE Failed

Put(c, k, v) == [x \in DOMAIN c \cup {k} |-> IF x = k THEN v ELSE c[x]]

Remove(c, k) == [x \in DOMAIN c \ {k} |-> c[x]]

\* authCache.cache[auth] = authEntry{...}, at time t
cacheAuthResultNoDuration(c, auth, username, password, valid, t) ==
    Put(c, auth, [valid |-> valid, username |-> username,
                  password |-> password, expireAt |-> t])

cacheAuthResult(c, auth, username, password, valid, t) ==
    Put(c, auth, [valid |-> valid, username |-> username,
                  password |-> password, expireAt |-> t + CacheDuration])

\* sync.RWMutex
CanRLock(m) == ~m.writer
CanLockIgnoringReaders(m) == ~m.writer

CanLock(m) == ~m.writer /\ m.readers = 0

Idle == [pc |-> "off", at |-> 0, todo |-> {}, next |-> 0]

AuthInit ==
    /\ now = 0
    /\ cache = <<>>
    /\ mu = [readers |-> 0, writer |-> FALSE]
    /\ pc = [p \in Procs |-> "idle"]
    /\ tok = [p \in Procs |-> EmptyToken]
    /\ res = [p \in Procs |-> Failed]
    /\ hit = [p \in Procs |-> FALSE]
    /\ parsed = [p \in Procs |-> FALSE]
    /\ sweeper = Idle

HandlerIdle ==
    /\ status = [p \in Procs |-> 0]
    /\ served = [p \in Procs |-> FALSE]

NoCall == [pc |-> "none"]

ProxyIdle ==
    /\ cls = NoCall
    /\ rp = NoCall
    /\ fwd = NoCall
    /\ tun = NoCall

PureIdle ==
    /\ cmp = NoCall
    /\ hdr = NoCall
    /\ dir = NoCall
    /\ ProxyIdle

(***************************************************************************)
(* GetBasicAuth, one step per lock operation.                              *)
(***************************************************************************)
\* auth := r.Header.Get("Proxy-Authorization"); if auth == "" return
Call(p, auth) ==
    /\ pc[p] = "idle"
    /\ tok' = [tok EXCEPT ![p] = auth]
    /\ hit' = [hit EXCEPT ![p] = FALSE]
    /\ parsed' = [parsed EXCEPT ![p] = FALSE]
    /\ IF auth = EmptyToken
       THEN /\ res' = [res EXCEPT ![p] = Failed]
            /\ pc' = [pc EXCEPT ![p] = "returned"]
       ELSE /\ res' = res
            /\ pc' = [pc EXCEPT ![p] = "rlock"]
    /\ UNCHANGED <<now, cache, mu, sweeper, tokens, handlerVars, pureVars>>

\* authCache.mu.RLock()
RLock(p) ==
    /\ pc[p] = "rlock"
    /\ CanRLock(mu)
    /\ mu' = [mu EXCEPT !.readers = @ + 1]
    /\ pc' = [pc EXCEPT ![p] = "reading"]
    /\ UNCHANGED <<now, cache, tok, res, hit, parsed, sweeper, tokens, handlerVars, pureVars>>

\* the lookup, RUnlock, and on a miss parseBasicAuth
RUnlock(p) ==
    /\ pc[p] = "reading"
    /\ mu' = [mu EXCEPT !.readers = @ - 1]
    /\ IF LookupHit(cache, tok[p], now)
       THEN /\ res' = [res EXCEPT ![p] = HitResult(cache[tok[p]])]
            /\ hit' = [hit EXCEPT ![p] = TRUE]
            /\ parsed' = parsed
            /\ pc' = [pc EXCEPT ![p] = "returned"]
       ELSE /\ res' = [res EXCEPT ![p] = ParseMemo[tok[p]]]
            /\ hit' = hit
            /\ parsed' = [parsed EXCEPT ![p] = TRUE]
            /\ pc' = [pc EXCEPT ![p] = "wlock"]
    /\ UNCHANGED <<now, cache, tok, sweeper, tokens, handlerVars, pureVars>>

\* cacheAuthResult: authCache.mu.Lock()
Lock(p) ==
    /\ pc[p] = "wlock"
    /\ CanLock(mu)
    /\ mu' = [mu EXCEPT !.writer = TRUE]
    /\ pc' = [pc EXCEPT ![p] = "writing"]
    /\ UNCHANGED <<now, cache, tok, res, hit, parsed, sweeper, tokens, handlerVars, pureVars>>

\* cacheAuthResult: the store and the deferred Unlock
Unlock(p) ==
    /\ pc[p] = "writing"
    /\ cache' = IF res[p].ok
                THEN cacheAuthResult(cache, tok[p], res[p].username,
                                     res[p].password, TRUE, now)
                ELSE cacheAuthResult(cache, tok[p], <<>>, <<>>, FALSE, now)
    /\ mu' = [mu EXCEPT !.writer = FALSE]
    /\ pc' = [pc EXCEPT ![p] = "returned"]
    /\ UNCHANGED <<now, tok, res, hit, parsed, sweeper, tokens, handlerVars, pureVars>>

\* the caller takes the tuple
Return(p) ==
    /\ pc[p] = "returned"
    /\ pc' = [pc EXCEPT ![p] = "idle"]
    /\ tok' = [tok EXCEPT ![p] = EmptyToken]
    /\ res' = [res EXCEPT ![p] = Failed]
    /\ hit' = [hit EXCEPT ![p] = FALSE]
    /\ parsed' = [parsed EXCEPT ![p] = FALSE]
    /\ UNCHANGED <<now, cache, mu, sweeper, tokens, handlerVars, pureVars>>

(***************************************************************************)
(* InitAuthCache and the sweep goroutine.                                  *)
(***************************************************************************)
\* go func() { ticker := time.NewTicker(time.Minute) ...
InitAuthCache ==
    /\ sweeper.pc = "off"
    /\ sweeper' = [sweeper EXCEPT !.pc = "wait", !.next = now + SweepPeriod]
    /\ UNCHANGED <<now, cache, mu, pc, tok, res, hit, parsed, tokens, handlerVars, pureVars>>

\* for range ticker.C { now := time.Now()
SweepTick ==
    /\ sweeper.pc = "wait"
    /\ now >= sweeper.next
    /\ sweeper' = [sweeper EXCEPT !.pc = "lock", !.at = now,
                                  !.next = now + SweepPeriod]
    /\ UNCHANGED <<now, cache, mu, pc, tok, res, hit, parsed, tokens, handlerVars, pureVars>>

\* authCache.mu.Lock(); for k, v := range authCache.cache
SweepLock ==
    /\ sweeper.pc = "lock"
    /\ CanLock(mu)
    /\ mu' = [mu EXCEPT !.writer = TRUE]
    /\ sweeper' = [sweeper EXCEPT !.pc = "sweep", !.todo = DOMAIN cache]
    /\ UNCHANGED <<now, cache, pc, tok, res, hit, parsed, tokens, handlerVars, pureVars>>

\* if now.After(v.expireAt) { delete(authCache.cache, k) }
SweepExpiredAtOrBefore(at, entry) == NotAfter(entry.expireAt, at)

SweepExpired(at, entry) == After(at, entry.expireAt)

SweepEntry(k) ==
    /\ sweeper.pc = "sweep"
    /\ k \in sweeper.todo
    /\ cache' = IF SweepExpired(sweeper.at, cache[k]) THEN Remove(cache, k)
                ELSE cache
    /\ sweeper' = [sweeper EXCEPT !.todo = @ \ {k}]
    /\ UNCHANGED <<now, mu, pc, tok, res, hit, parsed, tokens, handlerVars, pureVars>>

\* authCache.mu.Unlock()
SweepUnlock ==
    /\ sweeper.pc = "sweep"
    /\ sweeper.todo = {}
    /\ mu' = [mu EXCEPT !.writer = FALSE]
    /\ sweeper' = [sweeper EXCEPT !.pc = "wait", !.at = 0]
    /\ UNCHANGED <<now, cache, pc, tok, res, hit, parsed, tokens, handlerVars, pureVars>>

\* the clock advances
Tick ==
    /\ now < MaxTime
    /\ now' = now + 1
    /\ UNCHANGED <<cache, mu, pc, tok, res, hit, parsed, sweeper, tokens, handlerVars, pureVars>>

(***************************************************************************)
(* startServer: the request handler of cmd/zaproxy/cmd/http.go and         *)
(* cmd/commands/daemon.go.  It calls GetBasicAuth, checks the tuple        *)
(* against the --username and --password flags and goes on to              *)
(* ReverseProxy.ServeHTTP.  Neither startServer calls InitAuthCache.       *)
(***************************************************************************)
\* http.StatusUnauthorized
StatusUnauthorized == 401

\* if ok { if username != lname && password != lpass { 401 } } else { 401 }
HandlerRejects(lname, lpass, ok) ==
    IF ok THEN FlagUsername # lname /\ FlagPassword # lpass ELSE TRUE

\* lname, lpass, ok := http_proxy.GetBasicAuth(r), then the check
HandlerAuth(p) ==
    /\ pc[p] = "returned"
    /\ status' = [status EXCEPT ![p] =
                    IF HandlerRejects(res[p].username, res[p].password, res[p].ok)
                    THEN StatusUnauthorized ELSE 0]
    /\ pc' = [pc EXCEPT ![p] = "checked"]
    /\ UNCHANGED <<now, cache, mu, tok, res, hit, parsed, sweeper, tokens,
                   served, pureVars>>

\* url.Parse("http://" + r.Host): panic on an error, else proxy.ServeHTTP(w, r)
HandlerServe(p, hostOk) ==
    /\ pc[p] = "checked"
    /\ served' = [served EXCEPT ![p] = hostOk]
    /\ pc' = [pc EXCEPT ![p] = IF hostOk THEN "handled" ELSE "panicked"]
    /\ UNCHANGED <<now, cache, mu, tok, res, hit, parsed, sweeper, tokens,
                   status, pureVars>>

\* the handler returns, or net/http recovers its panic
HandlerDone(p) ==
    /\ pc[p] \in {"handled", "panicked"}
    /\ pc' = [pc EXCEPT ![p] = "idle"]
    /\ tok' = [tok EXCEPT ![p] = EmptyToken]
    /\ res' = [res EXCEPT ![p] = Failed]
    /\ hit' = [hit EXCEPT ![p] = FALSE]
    /\ parsed' = [parsed EXCEPT ![p] = FALSE]
    /\ status' = [status EXCEPT ![p] = 0]
    /\ served' = [served EXCEPT ![p] = FALSE]
    /\ UNCHANGED <<now, cache, mu, sweeper, tokens, pureVars>>

ServerInit ==
    /\ AuthInit
    /\ tokens = ServerTokens
    /\ HandlerIdle
    /\ PureIdle

ServerNext ==
    \/ \E p \in Procs : \E auth \in tokens : Call(p, auth)
    \/ \E p \in Procs : RLock(p)
    \/ \E p \in Procs : RUnlock(p)
    \/ \E p \in Procs : Lock(p)
    \/ \E p \in Procs : Unlock(p)
    \/ \E p \in Procs : HandlerAuth(p)
    \/ \E p \in Procs : \E hostOk \in BOOLEAN : HandlerServe(p, hostOk)
    \/ \E p \in Procs : HandlerDone(p)
    \/ Tick

\* the steps of one handler goroutine after its request arrived
HandlerStep(p) ==
    \/ RLock(p)
    \/ RUnlock(p)
    \/ Lock(p)
    \/ Unlock(p)
    \/ HandlerAuth(p)
    \/ \E hostOk \in BOOLEAN : HandlerServe(p, hostOk)
    \/ HandlerDone(p)

\* a started handler goroutine runs on and the clock advances; whether
\* another request arrives is the clients' choice
ServerFair ==
    /\ \A p \in Procs : WF_vars(HandlerStep(p))
    /\ WF_vars(Tick)

ServerSpec == ServerInit /\ [][ServerNext]_vars /\ ServerFair

(***************************************************************************)
(* The cache under any caller: GetBasicAuth calls, InitAuthCache, sweep    *)
(* passes and clock advances in every interleaving.  The requests of a run *)
(* carry no Proxy-Authorization header or one token, valid or malformed.   *)
(***************************************************************************)
Init ==
    /\ AuthInit
    /\ \E t \in AuthTokens \ {EmptyToken} : tokens = {EmptyToken, t}
    /\ HandlerIdle
    /\ PureIdle

Next ==
    \/ \E p \in Procs : \E auth \in tokens : Call(p, auth)
    \/ \E p \in Procs : RLock(p)
    \/ \E p \in Procs : RUnlock(p)
    \/ \E p \in Procs : Lock(p)
    \/ \E p \in Procs : Unlock(p)
    \/ \E p \in Procs : Return(p)
    \/ InitAuthCache
    \/ SweepTick
    \/ SweepLock
    \/ \E k \in DOMAIN cache : SweepEntry(k)
    \/ SweepUnlock
    \/ Tick

Spec == Init /\ [][Next]_vars

(***************************************************************************)
(* GetBasicAuth on one token of any kind, first calls and cached calls,    *)
(* from concurrent callers.                                                *)
(***************************************************************************)
ParseInit ==
    /\ AuthInit
    /\ \E t \in ParseTokens : tokens = {t}
    /\ HandlerIdle
    /\ PureIdle

ParseNext ==
    \/ \E p \in Procs : \E auth \in tokens : Call(p, auth)
    \/ \E p \in Procs : RLock(p)
    \/ \E p \in Procs : RUnlock(p)
    \/ \E p \in Procs : Lock(p)
    \/ \E p \in Procs : Unlock(p)
    \/ \E p \in Procs : Return(p)
    \/ Tick

ParseSpec == ParseInit /\ [][ParseNext]_vars

(***************************************************************************)
(* CompareCredentials on its own: the call and its result.                 *)
(***************************************************************************)
\* arguments are byte strings of at most MaxCmpLen bytes over "a", "b"
MaxCmpLen == 2
CmpBytes == {97, 98}

Seqs(S, n) == UNION {[1..k -> S] : k \in 0..n}

CompareInit ==
    /\ AuthInit
    /\ tokens = {}
    /\ HandlerIdle
    /\ hdr = NoCall
    /\ dir = NoCall
    /\ ProxyIdle
    /\ \E iu, ip, eu, ep \in Seqs(CmpBytes, MaxCmpLen) :
         cmp = [pc |-> "call", inputUser |-> iu, inputPass |-> ip,
                expectedUser |-> eu, expectedPass |-> ep, result |-> FALSE]

CompareCall ==
    /\ cmp.pc = "call"
    /\ cmp' = [cmp EXCEPT
                 !.result = CompareCredentials(cmp.inputUser, cmp.inputPass,
                                               cmp.expectedUser, cmp.expectedPass),
                 !.pc = "done"]
    /\ UNCHANGED <<authVars, handlerVars, hdr, dir, proxyVars>>

CompareNext == CompareCall

CompareSpec == CompareInit /\ [][CompareNext]_vars

(***************************************************************************)
(* removeHeaders.  A header is a map from canonical key to its values.     *)
(***************************************************************************)
\* the bytes of an HTTP token (validHeaderFieldByte of textproto), without
\* the apostrophe and the backquote, which no text of the model holds
TokenChars ==
    Range(Upper) \cup Range(Lower) \cup Range(Digits)
    \cup {"!", "#", "$", "%", "&", "*", "+", "-", ".", "^", "_", "|", "~"}

\* textproto.CanonicalMIMEHeaderKey
CanonicalMIMEHeaderKey(k) ==
    IF \E i \in 1..Len(k) : k[i] \notin TokenChars THEN k
    ELSE [i \in 1..Len(k) |->
            IF i = 1 \/ k[i - 1] = "-" THEN ToUpper(k[i]) ELSE ToLower(k[i])]

\* http.Header.Get: the first value of the key, "" when there is none
Get(header, key) ==
    LET k == CanonicalMIMEHeaderKey(key) IN
    IF k \in DOMAIN header /\ Len(header[k]) > 0 THEN header[k][1] ELSE <<>>

\* http.Header.Del
Del(header, key) == Remove(header, CanonicalMIMEHeaderKey(key))

Space == {" ", "\t", "\n", "\r"}

\* strings.TrimSpace
TrimSpace(s) ==
    LET keep == {i \in 1..Len(s) : s[i] \notin Space} IN
    IF keep = {} THEN <<>>
    ELSE SubSeq(s, CHOOSE i \in keep : \A j \in keep : i <= j,
                   CHOOSE i \in keep : \A j \in keep : i >= j)

\* strings.Split(s, sep) for a one-byte separator
RECURSIVE Split(_, _)
Split(s, sep) ==
    LET i == Index(s, sep) IN
    IF i = 0 THEN <<s>>
    ELSE <<SubSeq(s, 1, i - 1)>> \o Split(From(s, i), sep)

hopHeaders ==
    <<<<"C","o","n","n","e","c","t","i","o","n">>,
      <<"P","r","o","x","y","-","C","o","n","n","e","c","t","i","o","n">>,
      <<"K","e","e","p","-","A","l","i","v","e">>,
      <<"P","r","o","x","y","-","A","u","t","h","e","n","t","i","c","a","t","e">>,
      <<"P","r","o","x","y","-","A","u","t","h","o","r","i","z","a","t","i","o","n">>,
      <<"T","e">>,
      <<"T","r","a","i","l","e","r">>,
      <<"T","r","a","n","s","f","e","r","-","E","n","c","o","d","i","n","g">>,
      <<"U","p","g","r","a","d","e">>>>

\* for _, f := range strings.Split(c, ",") { if f = TrimSpace(f); f != "" { Del(f) } }
RECURSIVE DelConnectionFields(_, _)
DelConnectionFields(header, fs) ==
    IF fs = <<>> THEN header
    ELSE LET f == TrimSpace(Head(fs)) IN
         DelConnectionFields(IF f # <<>> THEN Del(header, f) ELSE header, Tail(fs))

\* for _, h := range hopHeaders { if header.Get(h) != "" { header.Del(h) } }
RECURSIVE DelHopHeaders(_, _)
DelHopHeaders(header, hs) ==
    IF hs = <<>> THEN header
    ELSE DelHopHeaders(IF Get(header, Head(hs)) # <<>> THEN Del(header, Head(hs))
                       ELSE header, Tail(hs))

removeHeaders(header) ==
    LET c == Get(header, hopHeaders[1])
        h1 == IF c # <<>> THEN DelConnectionFields(header, Split(c, ","))
              ELSE header
    IN DelHopHeaders(h1, hopHeaders)

\* a Connection header carries at most MaxConnValues values
MaxConnValues == 2

ConnValues == {<<>>, <<"f","o","o">>, <<"f","o","o",","," ","b","a","r">>, <<"B","A","R"," ">>}

KFoo == <<"F","o","o">>
KBar == <<"B","a","r">>
KUpgrade == <<"U","p","g","r","a","d","e">>
KKeep == <<"X","-","K","e","e","p">>

\* the headers of the model: Connection with its values, headers a
\* Connection token may name, a hop-by-hop header with an empty or a
\* non-empty value, and a header nothing names
HeaderInputs ==
    { [k \in {e[1] : e \in {x \in ents : x[2] # <<>>}} |->
          (CHOOSE e \in ents : e[1] = k)[2]] :
      ents \in
        { { <<hopHeaders[1], conn>>, <<KFoo, foo>>, <<KBar, bar>>,
            <<KUpgrade, upg>>, <<KKeep, <<<<"1">>, <<"2">>>>>> } :
          conn \in Seqs(ConnValues, MaxConnValues),
          foo \in {<<>>, <<<<"1">>>>},
          bar \in {<<>>, <<<<"1">>>>},
          upg \in {<<>>, <<<<>>>>, <<<<"1">>>>, <<<<>>, <<"1">>>>} } }

HeaderInit ==
    /\ AuthInit
    /\ tokens = {}
    /\ HandlerIdle
    /\ cmp = NoCall
    /\ dir = NoCall
    /\ ProxyIdle
    /\ \E h \in HeaderInputs : hdr = [pc |-> "call", before |-> h, after |-> h]

RemoveHeadersCall ==
    /\ hdr.pc = "call"
    /\ hdr' = [hdr EXCEPT !.after = removeHeaders(hdr.before), !.pc = "done"]
    /\ UNCHANGED <<authVars, handlerVars, cmp, dir, proxyVars>>

HeaderNext == RemoveHeadersCall

HeaderSpec == HeaderInit /\ [][HeaderNext]_vars

(***************************************************************************)
(* NewReverseProxy: the director.                                          *)
(***************************************************************************)
singleJoiningSlashKeepBoth(a, b) ==
    LET aslash == HasSuffix(a, <<"/">>)
        bslash == HasPrefix(b, <<"/">>)
    IN IF ~aslash /\ ~bslash THEN a \o <<"/">> \o b
       ELSE a \o b

singleJoiningSlash(a, b) ==
    LET aslash == HasSuffix(a, <<"/">>)
        bslash == HasPrefix(b, <<"/">>)
    IN IF aslash /\ bslash THEN a \o From(b, 1)
       ELSE IF ~aslash /\ ~bslash THEN a \o <<"/">> \o b
       ELSE a \o b

UserAgent == "User-Agent"

\* director(req) for target; req.URL is rewritten in place
director(target, req) ==
    LET targetQuery == target.RawQuery
        path == singleJoiningSlash(target.Path, req.URL.Path)
        query == IF targetQuery = <<>> \/ req.URL.RawQuery = <<>>
                 THEN targetQuery \o req.URL.RawQuery
                 ELSE targetQuery \o <<"&">> \o req.URL.RawQuery
    IN [URL |-> [Scheme |-> target.Scheme, Host |-> target.Host,
                 Path |-> path, RawQuery |-> query],
        Host |-> target.Host,
        Header |-> IF UserAgent \in DOMAIN req.Header THEN req.Header
                   ELSE Put(req.Header, UserAgent, <<<<>>>>)]

\* paths are texts of at most MaxPathLen bytes over "/" and "a"
MaxPathLen == 2
Paths == Seqs({"/", "a"}, MaxPathLen)
Queries == {<<>>, <<"a","=","1">>, <<"b">>}

Targets ==
    [Scheme : {"http", "https"}, Host : {"example.com"},
     Path : Paths, RawQuery : Queries]

Requests ==
    [URL : [Scheme : {"http"}, Host : {"localhost"},
            Path : Paths, RawQuery : Queries],
     Host : {"localhost"},
     Header : {<<>>, [k \in {UserAgent} |-> <<<<"c","u","r","l">>>>],
               [k \in {UserAgent} |-> <<<<>>>>]}]

DirectorInit ==
    /\ AuthInit
    /\ tokens = {}
    /\ HandlerIdle
    /\ cmp = NoCall
    /\ hdr = NoCall
    /\ ProxyIdle
    /\ \E t \in Targets, r \in Requests :
         dir = [pc |-> "call", target |-> t, req |-> r, out |-> r]

DirectorCall ==
    /\ dir.pc = "call"
    /\ dir' = [dir EXCEPT !.out = director(dir.target, dir.req), !.pc = "done"]
    /\ UNCHANGED <<authVars, handlerVars, cmp, hdr, proxyVars>>

DirectorNext == DirectorCall

DirectorSpec == DirectorInit /\ [][DirectorNext]_vars

(***************************************************************************)
(* Errors.  An error is nil or a record of what isClosedConnError reads:   *)
(* which error it is, its Timeout() and Temporary() when it is a           *)
(* *net.OpError, the errno of the *os.SyscallError under it, and its text. *)
(***************************************************************************)
nil == [type |-> "nil"]

Err(type, timeout, temporary, errno, text) ==
    [type |-> type, timeout |-> timeout, temporary |-> temporary,
     errno |-> errno, text |-> text]

EOF == Err("io.EOF", FALSE, FALSE, "", "EOF")
ErrClosedPipe == Err("io.ErrClosedPipe", FALSE, FALSE, "", "io: read/write on closed pipe")
ErrUnexpectedEOF == Err("io.ErrUnexpectedEOF", FALSE, FALSE, "", "unexpected EOF")
\* a read or write after the deadline of the connection
ErrTimeout == Err("*net.OpError", TRUE, TRUE, "", "read tcp: i/o timeout")
\* a read or write on a connection this process closed
ErrNetClosed == Err("*net.OpError", FALSE, FALSE, "", "read tcp: use of closed network connection")
\* a write to a connection the peer closed
ErrBrokenPipe == Err("*net.OpError", FALSE, FALSE, "EPIPE", "write tcp: write: broken pipe")
\* an error of the network that names no closed connection
ErrNoRoute == Err("*net.OpError", FALSE, FALSE, "EHOSTUNREACH", "tcp: no route to host")
\* the dial failed
ErrDial == Err("*net.OpError", FALSE, FALSE, "ECONNREFUSED", "dial tcp: connect: connection refused")
\* errors.New of a transport, a hook or a hijacker
ErrPlain(text) == Err("*errors.errorString", FALSE, FALSE, "", text)

\* strings.Contains
Contains(s, substr) ==
    \E i \in 1..(Len(s) - Len(substr) + 1) :
        SubSeq(s, i, i + Len(substr) - 1) = substr

ClosedPhrases ==
    { "http2: client conn not usable", "http2: server sent GOAWAY",
      "tls: use of closed connection", "tls: protocol is shutdown",
      "use of closed network connection", "connection reset by peer",
      "broken pipe", "i/o timeout", "connection refused",
      "connection timed out", "EOF", "write: broken pipe",
      "protocol wrong type for socket", "network connection closed",
      "wsarecv: An existing connection was forcibly closed",
      "readfrom: connection refused" }

\* the classification by the text alone
isClosedConnErrorByText(err) ==
    IF err = nil THEN FALSE
    ELSE \E ph \in ClosedPhrases : Contains(err.text, ph)

isClosedConnError(err) ==
    IF err = nil THEN FALSE
    ELSE IF err.type \in {"io.EOF", "io.ErrClosedPipe", "io.ErrUnexpectedEOF"} THEN TRUE
    ELSE IF err.type = "*net.OpError" /\ (err.timeout \/ err.temporary) THEN TRUE
    ELSE IF err.type = "*net.OpError" /\ err.errno \in {"ECONNRESET", "EPIPE"} THEN TRUE
    ELSE \E ph \in ClosedPhrases : Contains(err.text, ph)

(***************************************************************************)
(* One call of isClosedConnError, on any error a copy, a dial or a hook    *)
(* can give.                                                               *)
(***************************************************************************)
\* fmt.Errorf("...: %w", err): a new error value with the longer text
Wrap(context, err) == Err("*fmt.wrapError", FALSE, FALSE, "", context \o err.text)

\* *net.OpError over a syscall.Errno, with the Timeout() and Temporary()
\* of that errno
ErrConnReset == Err("*net.OpError", FALSE, FALSE, "ECONNRESET", "read tcp: read: connection reset by peer")
ErrTimedOut == Err("*net.OpError", TRUE, TRUE, "ETIMEDOUT", "read tcp: read: connection timed out")
ErrAgain == Err("*net.OpError", TRUE, TRUE, "EAGAIN", "read tcp: read: resource temporarily unavailable")
ErrInterrupted == Err("*net.OpError", FALSE, TRUE, "EINTR", "read tcp: read: interrupted system call")
\* *net.OpError over a *net.DNSError with IsTemporary
ErrDNS == Err("*net.OpError", FALSE, TRUE, "", "dial tcp: lookup upstream: server misbehaving")

\* texts that name no closed connection
OtherTexts ==
    { "some other error", "", "eof", "Connection Reset By Peer",
      "connection reset", "closed", "timeout", "context deadline exceeded",
      "client connection closed", "GEOFENCE lookup failed" }

\* the errors isClosedConnError is asked about
ClosedConnInputs ==
    {nil, EOF, ErrClosedPipe, ErrUnexpectedEOF}
    \cup {ErrTimeout, ErrNetClosed, ErrBrokenPipe, ErrNoRoute, ErrDial,
          ErrConnReset, ErrTimedOut, ErrAgain, ErrInterrupted, ErrDNS}
    \cup {Wrap("copy: ", e) : e \in {EOF, ErrClosedPipe, ErrUnexpectedEOF, ErrInterrupted}}
    \cup {ErrPlain(pre \o ph \o post) :
            pre \in {"", "read: "}, ph \in ClosedPhrases, post \in {"", " (1)"}}
    \cup {ErrPlain(text) : text \in OtherTexts}

ClosedInit ==
    /\ AuthInit
    /\ tokens = {}
    /\ HandlerIdle
    /\ cmp = NoCall
    /\ hdr = NoCall
    /\ dir = NoCall
    /\ rp = NoCall
    /\ fwd = NoCall
    /\ tun = NoCall
    /\ \E err \in ClosedConnInputs :
         cls = [pc |-> "call", err |-> err, result |-> FALSE]

ClosedCall ==
    /\ cls.pc = "call"
    /\ cls' = [cls EXCEPT !.result = isClosedConnError(cls.err), !.pc = "done"]
    /\ UNCHANGED <<authVars, handlerVars, cmp, hdr, dir, rp, fwd, tun>>

ClosedNext == ClosedCall

ClosedSpec == ClosedInit /\ [][ClosedNext]_vars

(***************************************************************************)
(* ReverseProxy.ServeHTTP.  rp holds the request, the hooks of the         *)
(* ReverseProxy and what the client's ResponseWriter received: rw.status   *)
(* is the status written (0 when none), rw.from says whether status and    *)
(* headers are the proxy's own (http.Error) or the upstream's, rw.text is  *)
(* the body text of http.Error, rw.body the upstream body bytes written.   *)
(***************************************************************************)
StatusOK == 200
StatusBadRequest == 400
StatusMethodNotAllowed == 405
StatusBadGateway == 502
StatusServiceUnavailable == 503

\* the methods of the model: those ServeHTTP names, and others
Methods ==
    {"CONNECT", "GET", "POST", "PUT", "DELETE", "HEAD", "OPTIONS", "PATCH",
     "TRACE", "get", ""}

RouteNoDefault(method) ==
    IF method = "CONNECT" THEN "ProxyHTTPS" ELSE "ProxyHTTP"

\* switch req.Method
Route(method) ==
    IF method = "CONNECT" THEN "ProxyHTTPS"
    ELSE IF method \in {"GET", "POST", "PUT", "DELETE", "HEAD", "OPTIONS", "PATCH"}
         THEN "ProxyHTTP"
    ELSE "default"

NoResponse == [status |-> 0, from |-> "none", text |-> "", body |-> <<>>]

\* http.Error(rw, text, code)
HttpError(rw, text, code) ==
    IF rw.status # 0 THEN [rw EXCEPT !.text = text]
    ELSE [rw EXCEPT !.status = code, !.from = "proxy", !.text = text]

\* p.OnProxyConnect(req), when set
OnProxyConnect(r) ==
    IF r.onConnect THEN [r EXCEPT !.connects = @ + 1] ELSE r

\* p.OnProxyError(req, err), when set
OnProxyError(r, err) ==
    IF r.onError THEN [r EXCEPT !.errors = Append(@, err)] ELSE r

(***************************************************************************)
(* ReverseProxy.ProxyHTTP.  fwd holds the locals of the call, the watcher  *)
(* goroutine of the CloseNotifier and the maxLatencyWriter with its        *)
(* flushLoop goroutine.  The Director and the header rewriting are the     *)
(* operators director and removeHeaders above; here the outbound request   *)
(* is the method and the body.                                             *)
(***************************************************************************)
\* the longest upstream body, in bytes
MaxBodyLen == 2
\* the largest BufferSize configured
MaxBufferSize == 2
\* bufSize := 32 * 1024
DefaultBufferSizeHTTP == 32768

\* upstream bodies: the bytes 1, 2, ... up to a length
Bodies == {[i \in 1..n |-> i] : n \in 0..MaxBodyLen}
\* inbound request bodies
RequestBodies == {<<>>, <<9, 8>>}

NoWriter == [pc |-> "none", mu |-> "free"]

\* the state of fwd when ServeHTTP calls ProxyHTTP
ProxyHTTPEntry ==
    [pc |-> "start", watch |-> "none", gone |-> "no", cancelled |-> FALSE,
     reqDone |-> FALSE,
     outreq |-> [Method |-> "", Body |-> <<>>], roundTrips |-> 0, waited |-> 0,
     sent |-> <<>>, err |-> nil, body |-> <<>>, n |-> 0, buf |-> <<>>,
     bufSize |-> 0, closed |-> FALSE, mlw |-> NoWriter]

\* outreq := new(http.Request); *outreq = *req
Outreq(r) == [Method |-> r.method, Body |-> r.body]

\* bufSize := 32 * 1024; if p.BufferSize > 0 { bufSize = p.BufferSize }
BufSizeHTTP(BufferSize) ==
    IF BufferSize > 0 THEN BufferSize ELSE DefaultBufferSizeHTTP

Min(a, b) == IF a < b THEN a ELSE b

\* sync.Mutex of the maxLatencyWriter
MuFreeAlways(m) == TRUE

MuFree(m) == m.mu = "free"

\* the OnProxyConnect hook, the watcher goroutine, the outbound request
ProxyHTTPStart(watch) ==
    /\ rp.pc = "ProxyHTTP" /\ fwd.pc = "start"
    /\ rp' = OnProxyConnect(rp)
    /\ fwd' = [fwd EXCEPT !.pc = "roundtrip",
                          !.watch = IF watch THEN "waiting" ELSE "none",
                          !.outreq = Outreq(rp)]
    /\ UNCHANGED <<authVars, handlerVars, cmp, hdr, dir, cls, tun>>

\* the client closes its connection and clientGone, the channel of
\* cn.CloseNotify(), gets its value: before the round trip is over, or after
CloseNotify ==
    /\ rp.pc # "none" /\ fwd.pc # "none" /\ fwd.watch = "waiting"
    /\ fwd.gone = "no"
    /\ fwd' = [fwd EXCEPT !.gone = IF fwd.pc = "roundtrip" THEN "before" ELSE "after"]
    /\ UNCHANGED <<authVars, handlerVars, cmp, hdr, dir, cls, rp, tun>>

\* case <-clientGone: CancelRequest(outreq); OnProxyError(req, ...)
ClientGoneNoCancel ==
    /\ rp.pc # "none" /\ fwd.pc # "none" /\ fwd.watch = "waiting"
    /\ fwd.gone # "no"
    /\ rp' = OnProxyError(rp, ErrPlain("client connection closed"))
    /\ fwd' = [fwd EXCEPT !.watch = "done"]
    /\ UNCHANGED <<authVars, handlerVars, cmp, hdr, dir, cls, tun>>

ClientGone ==
    /\ rp.pc # "none" /\ fwd.pc # "none" /\ fwd.watch = "waiting"
    /\ fwd.gone # "no"
    /\ rp' = OnProxyError(rp, ErrPlain("client connection closed"))
    /\ fwd' = [fwd EXCEPT !.watch = "done", !.cancelled = TRUE]
    /\ UNCHANGED <<authVars, handlerVars, cmp, hdr, dir, cls, tun>>

\* case <-reqDone:
WatcherDone ==
    /\ rp.pc # "none" /\ fwd.pc # "none" /\ fwd.watch = "waiting" /\ fwd.reqDone
    /\ fwd' = [fwd EXCEPT !.watch = "done"]
    /\ UNCHANGED <<authVars, handlerVars, cmp, hdr, dir, cls, rp, tun>>

\* a failed round trip or response modifier: hook, 502, return
BadGatewayNoHook(r, err) ==
    [r EXCEPT !.rw = HttpError(@, "Bad Gateway", StatusBadGateway)]

BadGateway(r, err) ==
    [OnProxyError(r, err) EXCEPT
        !.rw = HttpError(@, "Bad Gateway", StatusBadGateway)]

\* context.DeadlineExceeded
ErrDeadlineExceeded ==
    Err("context.deadlineExceededError", TRUE, TRUE, "", "context deadline exceeded")

\* what transport.RoundTrip gives when the upstream would answer with err
\* (nil: a response) after wait, and the context of outreq, which
\* *outreq = *req took from req, ends after timeout
RoundTripResultNoContext(err, wait, timeout) == err

RoundTripResult(err, wait, timeout) ==
    IF wait >= timeout THEN ErrDeadlineExceeded ELSE err

\* res, err := transport.RoundTrip(outreq)
RoundTrip(err, body, wait) ==
    /\ rp.pc = "ProxyHTTP" /\ fwd.pc = "roundtrip"
    /\ LET result == RoundTripResult(err, wait, rp.ctx.timeout) IN
       IF result # nil
       THEN /\ body = <<>>
            /\ rp' = BadGateway(rp, result)
            /\ fwd' = [fwd EXCEPT !.pc = "return", !.roundTrips = @ + 1,
                                  !.waited = IF result = ErrDeadlineExceeded
                                             THEN rp.ctx.timeout ELSE wait,
                                  !.sent = fwd.outreq.Body, !.err = result]
       ELSE /\ rp' = rp
            /\ fwd' = [fwd EXCEPT !.pc = "modify", !.roundTrips = @ + 1,
                                  !.waited = wait,
                                  !.sent = fwd.outreq.Body, !.body = body]
    /\ UNCHANGED <<authVars, handlerVars, cmp, hdr, dir, cls, tun>>

\* ModifyResponse, copyHeader, rw.WriteHeader(res.StatusCode), and the
\* maxLatencyWriter with its flushLoop when FlushInterval != 0
Respond(modifyErr, FlushInterval, BufferSize) ==
    /\ rp.pc = "ProxyHTTP" /\ fwd.pc = "modify"
    /\ IF modifyErr # nil
       THEN /\ rp' = BadGateway(rp, modifyErr)
            /\ fwd' = [fwd EXCEPT !.pc = "return", !.err = modifyErr]
       ELSE /\ rp' = [rp EXCEPT !.rw.status = StatusOK, !.rw.from = "upstream"]
            /\ fwd' = [fwd EXCEPT
                         !.pc = "read",
                         !.bufSize = BufSizeHTTP(BufferSize),
                         !.mlw = IF FlushInterval # 0
                                 THEN [pc |-> "select", mu |-> "free"]
                                 ELSE NoWriter]
    /\ UNCHANGED <<authVars, handlerVars, cmp, hdr, dir, cls, tun>>

\* after io.CopyBuffer: the error hook, res.Body.Close(), then the defers
EndCopy(f, err) ==
    [f EXCEPT !.pc = IF f.mlw.pc # "none" THEN "stop" ELSE "return",
              !.err = err, !.buf = <<>>, !.closed = TRUE]

CopyFailedAlwaysHook(r, err) ==
    IF err # nil THEN OnProxyError(r, err) ELSE r

CopyFailed(r, err) ==
    IF err # nil /\ ~isClosedConnError(err) THEN OnProxyError(r, err) ELSE r

\* io.CopyBuffer: nr, er := src.Read(buf); k bytes, io.EOF or an error
CopyRead(k, err) ==
    /\ rp.pc = "ProxyHTTP" /\ fwd.pc = "read"
    /\ IF err # nil
       THEN /\ fwd' = EndCopy(fwd, err)
            /\ rp' = CopyFailed(rp, err)
       ELSE IF fwd.n = Len(fwd.body)
       THEN /\ k = 0
            /\ fwd' = EndCopy(fwd, nil)
            /\ rp' = rp
       ELSE /\ k \in 1..Min(fwd.bufSize, Len(fwd.body) - fwd.n)
            /\ fwd' = [fwd EXCEPT !.pc = "write", !.n = @ + k,
                                  !.buf = SubSeq(fwd.body, fwd.n + 1, fwd.n + k)]
            /\ rp' = rp
    /\ UNCHANGED <<authVars, handlerVars, cmp, hdr, dir, cls, tun>>

\* dst.Write(buf[0:nr]) on the ResponseWriter
WriteTwice(rw, b) == [rw EXCEPT !.body = @ \o b \o b]

Write(rw, b) == [rw EXCEPT !.body = @ \o b]

\* io.CopyBuffer: nw, ew := dst.Write(buf[0:nr]), dst the ResponseWriter
CopyWrite(err) ==
    /\ rp.pc = "ProxyHTTP" /\ fwd.pc = "write" /\ fwd.mlw.pc = "none"
    /\ IF err # nil
       THEN /\ fwd' = EndCopy(fwd, err)
            /\ rp' = CopyFailed(rp, err)
       ELSE /\ fwd' = [fwd EXCEPT !.pc = "read", !.buf = <<>>]
            /\ rp' = [rp EXCEPT !.rw = Write(@, fwd.buf)]
    /\ UNCHANGED <<authVars, handlerVars, cmp, hdr, dir, cls, tun>>

\* maxLatencyWriter.Write: m.mu.Lock()
WriterLock ==
    /\ rp.pc = "ProxyHTTP" /\ fwd.pc = "write" /\ fwd.mlw.pc # "none"
    /\ MuFree(fwd.mlw)
    /\ fwd' = [fwd EXCEPT !.pc = "writing", !.mlw.mu = "Write"]
    /\ UNCHANGED <<authVars, handlerVars, cmp, hdr, dir, cls, rp, tun>>

\* maxLatencyWriter.Write: m.dst.Write(b) and the deferred m.mu.Unlock()
WriterWrite(err) ==
    /\ rp.pc = "ProxyHTTP" /\ fwd.pc = "writing"
    /\ IF err # nil
       THEN /\ fwd' = [EndCopy(fwd, err) EXCEPT !.mlw.mu = "free"]
            /\ rp' = CopyFailed(rp, err)
       ELSE /\ fwd' = [fwd EXCEPT !.pc = "read", !.buf = <<>>, !.mlw.mu = "free"]
            /\ rp' = [rp EXCEPT !.rw = Write(@, fwd.buf)]
    /\ UNCHANGED <<authVars, handlerVars, cmp, hdr, dir, cls, tun>>

\* flushLoop: case <-t.C
FlushTick ==
    /\ rp.pc # "none" /\ fwd.pc # "none" /\ fwd.mlw.pc = "select"
    /\ fwd' = [fwd EXCEPT !.mlw.pc = "lock"]
    /\ UNCHANGED <<authVars, handlerVars, cmp, hdr, dir, cls, rp, tun>>

\* flushLoop: m.mu.Lock()
FlushLock ==
    /\ rp.pc # "none" /\ fwd.pc # "none" /\ fwd.mlw.pc = "lock"
    /\ MuFree(fwd.mlw)
    /\ fwd' = [fwd EXCEPT !.mlw.pc = "flushing", !.mlw.mu = "Flush"]
    /\ UNCHANGED <<authVars, handlerVars, cmp, hdr, dir, cls, rp, tun>>

\* flushLoop: m.dst.Flush(); m.mu.Unlock()
FlushUnlock ==
    /\ rp.pc # "none" /\ fwd.pc # "none" /\ fwd.mlw.pc = "flushing"
    /\ fwd' = [fwd EXCEPT !.mlw.pc = "select", !.mlw.mu = "free"]
    /\ UNCHANGED <<authVars, handlerVars, cmp, hdr, dir, cls, rp, tun>>

\* the deferred mlw.stop(): m.done <- true meets case <-m.done of flushLoop;
\* then the deferred close(reqDone) and ProxyHTTP returns
StopFlushWithoutReceiver ==
    /\ rp.pc = "ProxyHTTP" /\ fwd.pc = "stop"
    /\ fwd' = [fwd EXCEPT !.pc = "returned", !.reqDone = TRUE]
    /\ UNCHANGED <<authVars, handlerVars, cmp, hdr, dir, cls, rp, tun>>

StopFlush ==
    /\ rp.pc = "ProxyHTTP" /\ fwd.pc = "stop" /\ fwd.mlw.pc = "select"
    /\ fwd' = [fwd EXCEPT !.pc = "returned", !.reqDone = TRUE,
                          !.mlw.pc = "exiting"]
    /\ UNCHANGED <<authVars, handlerVars, cmp, hdr, dir, cls, rp, tun>>

\* flushLoop: onExitFlushLoop(), the deferred t.Stop(), return
FlushExit ==
    /\ rp.pc # "none" /\ fwd.pc # "none" /\ fwd.mlw.pc = "exiting"
    /\ fwd' = [fwd EXCEPT !.mlw.pc = "exited"]
    /\ UNCHANGED <<authVars, handlerVars, cmp, hdr, dir, cls, rp, tun>>

\* ProxyHTTP returns with no flushLoop to stop: the deferred close(reqDone)
ProxyHTTPReturn ==
    /\ rp.pc = "ProxyHTTP" /\ fwd.pc = "return"
    /\ fwd' = [fwd EXCEPT !.pc = "returned", !.reqDone = TRUE]
    /\ UNCHANGED <<authVars, handlerVars, cmp, hdr, dir, cls, rp, tun>>

(***************************************************************************)
(* ReverseProxy.ProxyHTTPS.  tun holds the locals of the call: the clock,  *)
(* the two connections, the raw lines written to the client, the relay     *)
(* goroutines and errChan.  A connection records the Close calls made on   *)
(* it, whether CloseWrite was called, its deadline, what its peer does     *)
(* (open, stalled, fin after a half-close, closed), the bytes that arrived *)
(* from the peer and are not read yet, how many bytes the peer has sent,   *)
(* and the bytes delivered to the peer.                                    *)
(***************************************************************************)
\* the clock of a tunnel runs from 0 to MaxClock
MaxClock == 1
\* each peer sends at most MaxStream bytes
MaxStream == 2
\* defaultTimeout = time.Minute * 10
DefaultTimeout == 10
\* bufSize := 64 * 1024
DefaultBufferSizeHTTPS == 65536

NoDeadline == -1

Conns == {"client", "upstream"}
Relays == {"up", "down"}

\* io.CopyBuffer(proxyConn, clientConn, buf) and io.CopyBuffer(clientConn, proxyConn, buf)
Src(r) == IF r = "up" THEN "client" ELSE "upstream"
Dst(r) == IF r = "up" THEN "upstream" ELSE "client"

\* the bytes a peer sends, in order
Script(c) == IF c = "client" THEN [i \in 1..MaxStream |-> i]
             ELSE [i \in 1..MaxStream |-> 10 + i]

NewConn ==
    [closes |-> 0, half |-> FALSE, deadline |-> NoDeadline, peer |-> "open",
     in |-> <<>>, sent |-> 0, got |-> <<>>]

\* the state of tun when ServeHTTP calls ProxyHTTPS
ProxyHTTPSEntry ==
    [pc |-> "start", now |-> 0, hijacked |-> FALSE, dialed |-> FALSE,
     conn |-> [c \in Conns |-> NewConn], raw |-> <<>>, panicking |-> FALSE,
     bufSize |-> 0, relay |-> [r \in Relays |-> [pc |-> "none", buf |-> <<>>]],
     spawned |-> 0, errChan |-> <<>>, received |-> 0, err |-> nil]

\* timeout := defaultTimeout; if p.Timeout > 0 { timeout = p.Timeout }
TimeoutOf(Timeout) == IF Timeout > 0 THEN Timeout ELSE DefaultTimeout

\* bufSize := 64 * 1024; if p.BufferSize > 0 { bufSize = p.BufferSize }
BufSizeHTTPS(BufferSize) ==
    IF BufferSize > 0 THEN BufferSize ELSE DefaultBufferSizeHTTPS

\* a read or write on cn at time t fails with a timeout
DeadlinePassed(cn, t) == cn.deadline # NoDeadline /\ t >= cn.deadline

\* DisableHTTPS, OnProxyConnect, the Hijacker and hij.Hijack(); then the
\* deferred recover-and-close is registered
ProxyHTTPSStart(DisableHTTPS, hijack) ==
    /\ rp.pc = "ProxyHTTPS" /\ tun.pc = "start"
    /\ IF DisableHTTPS
       THEN /\ rp' = [rp EXCEPT !.rw = HttpError(@, "HTTPS Proxy Disabled",
                                                 StatusServiceUnavailable)]
            /\ tun' = [tun EXCEPT !.pc = "returned"]
       ELSE IF hijack = "unsupported"
       THEN /\ rp' = [OnProxyConnect(rp) EXCEPT
                        !.rw = HttpError(@, "Proxy Server Error",
                                         StatusServiceUnavailable)]
            /\ tun' = [tun EXCEPT !.pc = "returned"]
       ELSE IF hijack = "error"
       THEN /\ rp' = [OnProxyError(OnProxyConnect(rp), ErrPlain("hijack failed"))
                        EXCEPT !.rw = HttpError(@, "Proxy Server Error",
                                                StatusServiceUnavailable)]
            /\ tun' = [tun EXCEPT !.pc = "returned"]
       ELSE /\ rp' = OnProxyConnect(rp)
            /\ tun' = [tun EXCEPT !.pc = "dial", !.hijacked = TRUE]
    /\ UNCHANGED <<authVars, handlerVars, cmp, hdr, dir, cls, fwd>>

\* p.OnProxyError(req, err) in the handler; a hook that is set may panic,
\* and the panic unwinds to the deferred calls
HandlerErrorNoHook(err, panics, next) ==
    /\ panics => rp.onError
    /\ rp' = rp
    /\ tun' = [next EXCEPT !.panicking = panics,
                           !.pc = "defers"]

HandlerError(err, panics, next) ==
    /\ panics => rp.onError
    /\ rp' = OnProxyError(rp, err)
    /\ tun' = [next EXCEPT !.panicking = panics,
                           !.pc = "defers"]

\* clientConn.Write([]byte("HTTP/1.1 504 Gateway Timeout\r\n\r\n"))
Write504Nothing(t) == t

Write504(t) == [t EXCEPT !.raw = Append(@, "HTTP/1.1 504 Gateway Timeout")]

\* proxyConn, err := dialer.Dial("tcp", req.URL.Host)
Dial(err, panics) ==
    /\ rp.pc = "ProxyHTTPS" /\ tun.pc = "dial"
    /\ IF err # nil
       THEN HandlerError(err, panics, Write504(tun))
       ELSE /\ ~panics
            /\ rp' = rp
            /\ tun' = [tun EXCEPT !.pc = "deadline", !.dialed = TRUE]
    /\ UNCHANGED <<authVars, handlerVars, cmp, hdr, dir, cls, fwd>>

\* deadline := time.Now().Add(timeout); SetDeadline on both connections
SetDeadlinesClientOnly(t, deadline) ==
    [t EXCEPT !.conn["client"].deadline = deadline]

SetDeadlines(t, deadline) ==
    [t EXCEPT !.conn["client"].deadline = deadline,
              !.conn["upstream"].deadline = deadline]

SetDeadline(Timeout, failing, panics) ==
    /\ rp.pc = "ProxyHTTPS" /\ tun.pc = "deadline"
    /\ TimeoutOf(Timeout) = rp.ctx.timeout
    /\ LET deadline == tun.now + TimeoutOf(Timeout) IN
       IF failing = "client"
       THEN HandlerError(ErrPlain("set deadline"), panics, tun)
       ELSE IF failing = "upstream"
       THEN HandlerError(ErrPlain("set deadline"), panics,
                         [tun EXCEPT !.conn["client"].deadline = deadline])
       ELSE /\ ~panics
            /\ rp' = rp
            /\ tun' = [SetDeadlines(tun, deadline) EXCEPT !.pc = "write200"]
    /\ UNCHANGED <<authVars, handlerVars, cmp, hdr, dir, cls, fwd>>

\* clientConn.Write("HTTP/1.1 200 Connection Established"), then the two
\* go statements
Write200(err, BufferSize, panics) ==
    /\ rp.pc = "ProxyHTTPS" /\ tun.pc = "write200"
    /\ IF err # nil
       THEN /\ BufferSize = 0
            /\ HandlerError(err, panics, tun)
       ELSE /\ ~panics
            /\ rp' = rp
            /\ tun' = [tun EXCEPT
                         !.pc = "wait",
                         !.raw = Append(@, "HTTP/1.1 200 Connection Established"),
                         !.bufSize = BufSizeHTTPS(BufferSize),
                         !.spawned = 2,
                         !.relay = [r \in Relays |-> [pc |-> "read", buf |-> <<>>]]]
    /\ UNCHANGED <<authVars, handlerVars, cmp, hdr, dir, cls, fwd>>

\* an I/O call blocks, moves bytes, or ends the copy with err (nil at EOF)
Blocked == [kind |-> "blocked", err |-> nil]
Moves == [kind |-> "moves", err |-> nil]
Ends(err) == [kind |-> "ends", err |-> err]

\* what a Read of connection cn gives at time t; it blocks while the peer
\* is silent
ReadOutcome(cn, t, fault) ==
    IF cn.closes > 0 THEN Ends(ErrNetClosed)
    ELSE IF DeadlinePassed(cn, t) THEN Ends(ErrTimeout)
    ELSE IF fault THEN Ends(ErrNoRoute)
    ELSE IF cn.in # <<>> THEN Moves
    ELSE IF cn.peer \in {"fin", "closed"} THEN Ends(nil)
    ELSE Blocked

\* what a Write to connection cn gives at time t; it blocks while the peer
\* does not read (a fault of the network shows at the next Read)
WriteOutcome(cn, t) ==
    IF cn.closes > 0 THEN Ends(ErrNetClosed)
    ELSE IF DeadlinePassed(cn, t) THEN Ends(ErrTimeout)
    ELSE IF cn.peer = "closed" THEN Ends(ErrBrokenPipe)
    ELSE IF cn.peer = "stalled" THEN Blocked
    ELSE Moves

\* tcpConn.CloseWrite() on the destination
CloseWriteAsClose(cn) == [cn EXCEPT !.closes = @ + 1]

CloseWrite(cn) == IF cn.closes > 0 THEN cn ELSE [cn EXCEPT !.half = TRUE]

\* errChan := make(chan error, 2): a send goes through while the buffer has
\* room, and blocks otherwise
CanSendOne(ch) == Len(ch) < 1

CanSend(ch) == Len(ch) < 2

\* errChan <- sig in relay r
Send(t, r, sig) ==
    IF CanSend(t.errChan)
    THEN [t EXCEPT !.relay[r] = [pc |-> "done", buf |-> <<>>],
                   !.errChan = Append(@, sig)]
    ELSE [t EXCEPT !.relay[r] = [pc |-> "send", buf |-> <<>>, sig |-> sig]]

\* a receive from errChan lets a blocked sender go on
Wake(t) ==
    IF \E r \in Relays : t.relay[r].pc = "send"
    THEN LET r == CHOOSE q \in Relays : t.relay[q].pc = "send"
         IN [t EXCEPT !.relay[r] = [pc |-> "done", buf |-> <<>>],
                      !.errChan = Append(@, t.relay[r].sig)]
    ELSE t

\* the end of a relay goroutine: io.CopyBuffer gave err
RelayEnd(t, r, err) ==
    IF err # nil /\ ~isClosedConnError(err)
    THEN Send(t, r, err)
    ELSE Send([t EXCEPT !.conn[Dst(r)] = CloseWrite(@)], r, nil)

\* io.CopyBuffer in a relay goroutine: nr, er := src.Read(buf); a Read on a
\* connection takes what has arrived, up to the size of the buffer.  When
\* the copy ends with an error that is reported, the hook may panic: no
\* deferred call of the goroutine recovers, and the process exits
RelayRead(r, k, fault, panics) ==
    /\ rp.pc \notin {"none", "exit"} /\ tun.pc # "none" /\ tun.relay[r].pc = "read"
    /\ LET cn == tun.conn[Src(r)]
           o == ReadOutcome(cn, tun.now, fault)
       IN /\ o.kind # "blocked"
          /\ panics => /\ o.kind = "ends" /\ rp.onError
                       /\ o.err # nil /\ ~isClosedConnError(o.err)
          /\ IF o.kind = "moves"
             THEN /\ k = Min(tun.bufSize, Len(cn.in))
                  /\ tun' = [tun EXCEPT
                               !.relay[r] = [pc |-> "write", buf |-> SubSeq(cn.in, 1, k)],
                               !.conn[Src(r)].in = SubSeq(cn.in, k + 1, Len(cn.in))]
                  /\ rp' = rp
             ELSE IF panics
             THEN /\ k = 0
                  /\ tun' = [tun EXCEPT !.pc = "exit",
                                        !.relay[r] = [pc |-> "panicked", buf |-> <<>>]]
                  /\ rp' = [CopyFailed(rp, o.err) EXCEPT !.pc = "exit"]
             ELSE /\ k = 0
                  /\ tun' = RelayEnd(tun, r, o.err)
                  /\ rp' = CopyFailed(rp, o.err)
    /\ UNCHANGED <<authVars, handlerVars, cmp, hdr, dir, cls, fwd>>

\* dst.Write(buf[0:nr]) on a connection
DeliverTwice(cn, b) == [cn EXCEPT !.got = @ \o b \o b]

Deliver(cn, b) == [cn EXCEPT !.got = @ \o b]

\* io.CopyBuffer in a relay goroutine: nw, ew := dst.Write(buf[0:nr])
RelayWrite(r) ==
    /\ rp.pc \notin {"none", "exit"} /\ tun.pc # "none" /\ tun.relay[r].pc = "write"
    /\ LET cn == tun.conn[Dst(r)]
           o == WriteOutcome(cn, tun.now)
       IN /\ o.kind # "blocked"
          /\ IF o.kind = "moves"
             THEN /\ tun' = [tun EXCEPT
                               !.relay[r] = [pc |-> "read", buf |-> <<>>],
                               !.conn[Dst(r)] = Deliver(@, tun.relay[r].buf)]
                  /\ rp' = rp
             ELSE /\ tun' = RelayEnd(tun, r, o.err)
                  /\ rp' = CopyFailed(rp, o.err)
    /\ UNCHANGED <<authVars, handlerVars, cmp, hdr, dir, cls, fwd>>

\* conn.Close()
Close(cn) == [cn EXCEPT !.closes = @ + 1]

\* the deferred proxyConn.Close(), registered once the dial succeeded
DeferCloseUpstreamNever(t) == t

DeferCloseUpstream(t) ==
    IF t.dialed THEN [t EXCEPT !.conn["upstream"] = Close(@)] ELSE t

\* the deferred calls of a handler that leaves without a panic, in reverse
\* order: proxyConn.Close(), then the func with recover() and
\* clientConn.Close()
RunDeferred(t) ==
    [DeferCloseUpstream(t) EXCEPT !.pc = "returned", !.panicking = FALSE,
                                  !.conn["client"] = Close(@)]

\* for i := 0; i < 2; i++ { if err := <-errChan; err != nil { return } }
ReceiveWaitsForBoth(t) ==
    LET n == t.received + 1
        got == [t EXCEPT !.errChan = Tail(@), !.received = n,
                         !.err = Head(t.errChan)]
    IN IF n = 2 THEN RunDeferred(got) ELSE got

ReceiveReturnsOnFirst(t) ==
    RunDeferred([t EXCEPT !.errChan = Tail(@), !.received = t.received + 1,
                          !.err = Head(t.errChan)])

Receive(t) ==
    LET err == Head(t.errChan)
        n == t.received + 1
        got == [t EXCEPT !.errChan = Tail(@), !.received = n, !.err = err]
    IN IF err # nil \/ n = 2 THEN RunDeferred(got) ELSE got

ReceiveErr ==
    /\ rp.pc = "ProxyHTTPS" /\ tun.pc = "wait" /\ tun.errChan # <<>>
    /\ tun' = Wake(Receive(tun))
    /\ UNCHANGED <<authVars, handlerVars, cmp, hdr, dir, cls, rp, fwd>>

\* the deferred calls of a handler that leaves before the tunnel is
\* established: on a panic the func with recover() calls the error hook,
\* which may panic again and leave the func before clientConn.Close()
Deferred(again) ==
    /\ rp.pc = "ProxyHTTPS" /\ tun.pc = "defers"
    /\ again => tun.panicking /\ rp.onError
    /\ rp' = IF tun.panicking THEN OnProxyError(rp, ErrPlain("panic")) ELSE rp
    /\ tun' = IF again
              THEN [DeferCloseUpstream(tun) EXCEPT !.pc = "crashed"]
              ELSE RunDeferred(tun)
    /\ UNCHANGED <<authVars, handlerVars, cmp, hdr, dir, cls, fwd>>

\* the peer of connection c sends its next byte
PeerSend(c) ==
    /\ rp.pc # "none" /\ tun.pc = "wait"
    /\ tun.spawned = 2
    /\ tun.conn[c].peer = "open" /\ tun.conn[c].sent < MaxStream
    /\ tun.conn[c].closes = 0
    /\ tun' = [tun EXCEPT !.conn[c].sent = @ + 1,
                          !.conn[c].in = Append(@, Script(c)[tun.conn[c].sent + 1])]
    /\ UNCHANGED <<authVars, handlerVars, cmp, hdr, dir, cls, rp, fwd>>

\* the peer of connection c stops reading and sending, half-closes, or closes
PeerChange(c, to) ==
    /\ rp.pc # "none" /\ tun.pc = "wait"
    /\ tun.spawned = 2
    /\ tun.conn[c].closes = 0
    /\ \/ tun.conn[c].peer = "open" /\ to \in {"stalled", "fin", "closed"}
       \/ tun.conn[c].peer = "fin" /\ to = "closed"
    /\ tun' = [tun EXCEPT !.conn[c].peer = to]
    /\ UNCHANGED <<authVars, handlerVars, cmp, hdr, dir, cls, rp, fwd>>

\* the clock advances while the tunnel is established (before that only
\* the time of establishment counts, and it is called 0)
TunnelTick ==
    /\ rp.pc # "none" /\ tun.pc = "wait"
    /\ tun.spawned = 2
    /\ tun.now < MaxClock
    /\ tun' = [tun EXCEPT !.now = @ + 1]
    /\ UNCHANGED <<authVars, handlerVars, cmp, hdr, dir, cls, rp, fwd>>

(***************************************************************************)
(* One request through ServeHTTP, on any ReverseProxy.                     *)
(***************************************************************************)
\* ctx, cancel := context.WithTimeout(req.Context(), timeout)
WithTimeout(Timeout) == [state |-> "live", timeout |-> TimeoutOf(Timeout)]

\* the deferred cancel()
Cancel(ctx) == IF ctx.state = "none" THEN ctx ELSE [ctx EXCEPT !.state = "released"]

\* if req.URL == nil { 400 }; the context with the timeout; switch req.Method
ServeHTTP(Timeout) ==
    /\ rp.pc = "ServeHTTP"
    /\ IF rp.urlNil
       THEN /\ rp' = [rp EXCEPT !.pc = "done",
                        !.rw = HttpError(@, "Bad Request", StatusBadRequest)]
            /\ UNCHANGED <<fwd, tun>>
       ELSE IF Route(rp.method) = "ProxyHTTPS"
       THEN /\ rp' = [rp EXCEPT !.pc = "ProxyHTTPS", !.ctx = WithTimeout(Timeout)]
            /\ tun' = ProxyHTTPSEntry
            /\ fwd' = fwd
       ELSE IF Route(rp.method) = "ProxyHTTP"
       THEN /\ rp' = [rp EXCEPT !.pc = "ProxyHTTP", !.ctx = WithTimeout(Timeout)]
            /\ fwd' = ProxyHTTPEntry
            /\ tun' = tun
       ELSE /\ rp' = [rp EXCEPT !.pc = "done",
                        !.ctx = Cancel(WithTimeout(Timeout)),
                        !.rw = HttpError(@, "Method Not Allowed",
                                         StatusMethodNotAllowed)]
            /\ UNCHANGED <<fwd, tun>>
    /\ UNCHANGED <<authVars, handlerVars, cmp, hdr, dir, cls>>

\* ProxyHTTP or ProxyHTTPS returned, or its panic leaves ServeHTTP; the
\* deferred cancel() runs in both cases
ServeReturn ==
    /\ \/ rp.pc = "ProxyHTTP" /\ fwd.pc = "returned"
       \/ rp.pc = "ProxyHTTPS" /\ tun.pc \in {"returned", "crashed"}
    /\ rp' = [rp EXCEPT !.pc = IF rp.pc = "ProxyHTTPS" /\ tun.pc = "crashed"
                               THEN "panicked" ELSE "done",
                        !.ctx = Cancel(@)]
    /\ UNCHANGED <<authVars, handlerVars, cmp, hdr, dir, cls, fwd, tun>>

\* a request and a ReverseProxy with its hooks set or not
Request(method, urlNil, body, onConnect, onError) ==
    [pc |-> "ServeHTTP", method |-> method, urlNil |-> urlNil, body |-> body,
     onConnect |-> onConnect, onError |-> onError,
     connects |-> 0, errors |-> <<>>, rw |-> NoResponse,
     ctx |-> [state |-> "none", timeout |-> 0]]

ProxyInit ==
    /\ AuthInit
    /\ tokens = {}
    /\ HandlerIdle
    /\ cmp = NoCall
    /\ hdr = NoCall
    /\ dir = NoCall
    /\ cls = NoCall
    /\ fwd = NoCall
    /\ tun = NoCall
    /\ \E method \in Methods, urlNil \in BOOLEAN, body \in RequestBodies,
          onConnect \in BOOLEAN, onError \in BOOLEAN :
         rp = Request(method, urlNil, body, onConnect, onError)

\* the errors a transport, a response modifier, a body or a ResponseWriter gives
RoundTripErrors == {ErrDial, ErrPlain("round trip failed")}
CopyErrors == {ErrUnexpectedEOF, ErrNoRoute}

\* every request, to a proxy whose upstream cannot be reached: the
\* forwarding path ends at the failed round trip, the tunnel path at the
\* failed dial or before it
ServeNext ==
    \/ \E Timeout \in {0, 1} : ServeHTTP(Timeout)
    \/ \E watch \in BOOLEAN : ProxyHTTPStart(watch)
    \/ CloseNotify
    \/ ClientGone
    \/ WatcherDone
    \/ \E err \in RoundTripErrors : RoundTrip(err, <<>>, 0)
    \/ ProxyHTTPReturn
    \/ \E DisableHTTPS \in BOOLEAN, hijack \in {"ok", "unsupported", "error"} :
         ProxyHTTPSStart(DisableHTTPS, hijack)
    \/ \E panics \in BOOLEAN : Dial(ErrDial, panics)
    \/ \E again \in BOOLEAN : Deferred(again)
    \/ ServeReturn

ServeSpec == ProxyInit /\ [][ServeNext]_vars

\* the forwarding path alone: GET and POST requests (ProxyHTTP does not
\* look at the method)
ForwardInit ==
    /\ ProxyInit
    /\ rp.method \in {"GET", "POST"}
    /\ ~rp.urlNil

ForwardNext ==
    \/ ServeHTTP(0)
    \/ \E watch \in BOOLEAN : ProxyHTTPStart(watch)
    \/ CloseNotify
    \/ ClientGone
    \/ WatcherDone
    \/ \E err \in RoundTripErrors \cup {nil}, body \in Bodies : RoundTrip(err, body, 0)
    \/ \E err \in {nil, ErrPlain("modify failed")}, FlushInterval \in {0, 1},
          BufferSize \in 0..MaxBufferSize : Respond(err, FlushInterval, BufferSize)
    \/ \E k \in 0..MaxBodyLen, err \in CopyErrors \cup {nil} : CopyRead(k, err)
    \/ \E err \in CopyErrors \cup {nil} : CopyWrite(err)
    \/ WriterLock
    \/ \E err \in CopyErrors \cup {nil} : WriterWrite(err)
    \/ FlushTick
    \/ FlushLock
    \/ FlushUnlock
    \/ StopFlush
    \/ FlushExit
    \/ ProxyHTTPReturn
    \/ ServeReturn

ForwardSpec == ForwardInit /\ [][ForwardNext]_vars

\* the tunnel path alone: CONNECT requests to a proxy with both hooks set
\* (without the hooks the same steps run and nothing is recorded)
TunnelInit ==
    /\ ProxyInit
    /\ Route(rp.method) = "ProxyHTTPS"
    /\ ~rp.urlNil
    /\ rp.body = <<>>
    /\ rp.onConnect /\ rp.onError

TunnelNext ==
    \/ \E Timeout \in {0, 1} : ServeHTTP(Timeout)
    \/ \E DisableHTTPS \in BOOLEAN, hijack \in {"ok", "unsupported", "error"} :
         ProxyHTTPSStart(DisableHTTPS, hijack)
    \/ \E err \in {nil, ErrDial}, panics \in BOOLEAN : Dial(err, panics)
    \/ \E Timeout \in {0, 1}, failing \in {"none", "client", "upstream"},
          panics \in BOOLEAN : SetDeadline(Timeout, failing, panics)
    \/ \E err \in {nil, ErrBrokenPipe}, BufferSize \in {0, 1},
          panics \in BOOLEAN : Write200(err, BufferSize, panics)
    \/ \E r \in Relays, k \in 0..MaxStream, fault \in BOOLEAN : RelayRead(r, k, fault, FALSE)
    \/ \E r \in Relays : RelayWrite(r)
    \/ ReceiveErr
    \/ \E again \in BOOLEAN : Deferred(again)
    \/ \E c \in Conns : PeerSend(c)
    \/ \E c \in Conns, to \in {"stalled", "fin", "closed"} : PeerChange(c, to)
    \/ TunnelTick
    \/ ServeReturn

TunnelSpec == TunnelInit /\ [][TunnelNext]_vars

\* the Go scheduler runs every goroutine that can take a step: the two
\* relays and the handler of the tunnel
TunnelFair ==
    /\ \A r \in Relays :
          /\ WF_vars(\E k \in 0..MaxStream : RelayRead(r, k, FALSE, FALSE))
          /\ WF_vars(RelayWrite(r))
    /\ WF_vars(ReceiveErr)
    /\ WF_vars(\E again \in BOOLEAN : Deferred(again))

\* the tunnel over a network without faults and with the default buffer:
\* relays end only when a side closes or the deadline passes
TunnelLiveNext ==
    \/ \E Timeout \in {0, 1} : ServeHTTP(Timeout)
    \/ \E DisableHTTPS \in BOOLEAN, hijack \in {"ok", "unsupported", "error"} :
         ProxyHTTPSStart(DisableHTTPS, hijack)
    \/ \E err \in {nil, ErrDial}, panics \in BOOLEAN : Dial(err, panics)
    \/ \E Timeout \in {0, 1}, failing \in {"none", "client", "upstream"},
          panics \in BOOLEAN : SetDeadline(Timeout, failing, panics)
    \/ \E err \in {nil, ErrBrokenPipe}, panics \in BOOLEAN : Write200(err, 0, panics)
    \/ \E r \in Relays, k \in 0..MaxStream : RelayRead(r, k, FALSE, FALSE)
    \/ \E r \in Relays : RelayWrite(r)
    \/ ReceiveErr
    \/ \E again \in BOOLEAN : Deferred(again)
    \/ \E c \in Conns : PeerSend(c)
    \/ \E c \in Conns, to \in {"stalled", "fin", "closed"} : PeerChange(c, to)
    \/ TunnelTick
    \/ ServeReturn

TunnelLiveSpec == TunnelInit /\ [][TunnelLiveNext]_vars /\ TunnelFair

\* the tunnel over a network with faults, with the default buffer and the
\* default timeout (the deadline lies beyond the run), under the same
\* scheduling
TunnelFaultNext ==
    \/ ServeHTTP(0)
    \/ \E DisableHTTPS \in BOOLEAN, hijack \in {"ok", "unsupported", "error"} :
         ProxyHTTPSStart(DisableHTTPS, hijack)
    \/ \E err \in {nil, ErrDial}, panics \in BOOLEAN : Dial(err, panics)
    \/ \E failing \in {"none", "client", "upstream"}, panics \in BOOLEAN :
         SetDeadline(0, failing, panics)
    \/ \E err \in {nil, ErrBrokenPipe}, panics \in BOOLEAN : Write200(err, 0, panics)
    \/ \E r \in Relays, k \in 0..MaxStream, fault \in BOOLEAN : RelayRead(r, k, fault, FALSE)
    \/ \E r \in Relays : RelayWrite(r)
    \/ ReceiveErr
    \/ \E again \in BOOLEAN : Deferred(again)
    \/ \E c \in Conns : PeerSend(c)
    \/ \E c \in Conns, to \in {"stalled", "fin", "closed"} : PeerChange(c, to)
    \/ ServeReturn

TunnelFaultSpec == TunnelInit /\ [][TunnelFaultNext]_vars /\ TunnelFair

\* the same tunnel with an error hook that may panic wherever it is called
\* the first time (not again inside the deferred func)
TunnelPanicNext ==
    \/ ServeHTTP(0)
    \/ \E DisableHTTPS \in BOOLEAN, hijack \in {"ok", "unsupported", "error"} :
         ProxyHTTPSStart(DisableHTTPS, hijack)
    \/ \E err \in {nil, ErrDial}, panics \in BOOLEAN : Dial(err, panics)
    \/ \E failing \in {"none", "client", "upstream"}, panics \in BOOLEAN :
         SetDeadline(0, failing, panics)
    \/ \E err \in {nil, ErrBrokenPipe}, panics \in BOOLEAN : Write200(err, 0, panics)
    \/ \E r \in Relays, k \in 0..MaxStream, fault \in BOOLEAN, panics \in BOOLEAN :
         RelayRead(r, k, fault, panics)
    \/ \E r \in Relays : RelayWrite(r)
    \/ ReceiveErr
    \/ Deferred(FALSE)
    \/ \E c \in Conns : PeerSend(c)
    \/ \E c \in Conns, to \in {"stalled", "fin", "closed"} : PeerChange(c, to)
    \/ ServeReturn

TunnelPanicSpec == TunnelInit /\ [][TunnelPanicNext]_vars

\* the Go scheduler runs every goroutine that can take a step: ProxyHTTP,
\* its watcher and the flushLoop; a select with the done case ready
\* again and again takes it in the end
ForwardFair ==
    /\ WF_vars(\E k \in 0..MaxBodyLen, err \in CopyErrors \cup {nil} : CopyRead(k, err))
    /\ WF_vars(\E err \in CopyErrors \cup {nil} : CopyWrite(err))
    /\ WF_vars(WriterLock)
    /\ WF_vars(\E err \in CopyErrors \cup {nil} : WriterWrite(err))
    /\ WF_vars(FlushLock)
    /\ WF_vars(FlushUnlock)
    /\ SF_vars(StopFlush)
    /\ WF_vars(FlushExit)
    /\ WF_vars(ProxyHTTPReturn)

ForwardLiveSpec == ForwardSpec /\ ForwardFair

\* the forwarding path with a configured or default Timeout and an upstream
\* that takes its time to answer, copied without a flushLoop and with the
\* default buffer
ForwardTimeoutNext ==
    \/ \E Timeout \in {0, 1} : ServeHTTP(Timeout)
    \/ \E watch \in BOOLEAN : ProxyHTTPStart(watch)
    \/ CloseNotify
    \/ ClientGone
    \/ WatcherDone
    \/ \E err \in RoundTripErrors \cup {nil}, body \in Bodies, wait \in 0..MaxClock :
         RoundTrip(err, body, wait)
    \/ \E err \in {nil, ErrPlain("modify failed")} : Respond(err, 0, 0)
    \/ \E k \in 0..MaxBodyLen, err \in CopyErrors \cup {nil} : CopyRead(k, err)
    \/ \E err \in CopyErrors \cup {nil} : CopyWrite(err)
    \/ ProxyHTTPReturn
    \/ ServeReturn

\* every request ServeHTTP does not hand to ProxyHTTPS
TimeoutInit ==
    /\ ProxyInit
    /\ Route(rp.method) # "ProxyHTTPS"

ForwardTimeoutSpec == TimeoutInit /\ [][ForwardTimeoutNext]_vars

(***************************************************************************)
(* The cache with entries of two tokens, a valid and a malformed one, so   *)
(* that a sweep pass has entries to delete and entries to keep; requests   *)
(* carry one of them or no Proxy-Authorization header.                     *)
(***************************************************************************)
SweepInit ==
    /\ AuthInit
    /\ tokens = {EmptyToken, ValidToken, MalformedToken}
    /\ HandlerIdle
    /\ PureIdle

\* request goroutines calling GetBasicAuth while the sweep runs
NumSweepCallers == 1
SweepCallers == 1..NumSweepCallers

SweepNext ==
    \/ \E p \in SweepCallers : \E auth \in tokens : Call(p, auth)
    \/ \E p \in SweepCallers : RLock(p)
    \/ \E p \in SweepCallers : RUnlock(p)
    \/ \E p \in SweepCallers : Lock(p)
    \/ \E p \in SweepCallers : Unlock(p)
    \/ \E p \in SweepCallers : Return(p)
    \/ InitAuthCache
    \/ SweepTick
    \/ SweepLock
    \/ \E k \in DOMAIN cache : SweepEntry(k)
    \/ SweepUnlock
    \/ Tick

SweepSpec == SweepInit /\ [][SweepNext]_vars

(***************************************************************************)
(* C1: GetBasicAuth answers from the cache only when the entry's expireAt  *)
(* is strictly later than the time of the lookup; an entry that is not is  *)
(* a miss and the token is parsed again.                                   *)
(***************************************************************************)
LeavesLookup(p) == pc[p] = "reading" /\ pc'[p] # "reading"

C1_NoExpiredHit ==
    [][\A p \in Procs : LeavesLookup(p) =>
         /\ hit'[p] =>
              tok[p] \in DOMAIN cache /\ cache[tok[p]].expireAt > now
         /\ (tok[p] \in DOMAIN cache /\ cache[tok[p]].expireAt <= now) =>
              ~hit'[p] /\ parsed'[p] /\ pc'[p] = "wlock"]_vars

\* a lookup at exactly expireAt missed and the token was parsed again
C1_Witness ==
    \E p \in Procs :
        /\ pc[p] = "wlock" /\ parsed[p] /\ ~hit[p]
        /\ tok[p] \in DOMAIN cache /\ cache[tok[p]].expireAt = now

(***************************************************************************)
(* C4: once a result is stored for a token, the entry keeps its tuple      *)
(* until its expireAt, every lookup before expireAt returns that tuple     *)
(* from the cache without parsing, and a lookup after expireAt parses      *)
(* again.                                                                  *)
(***************************************************************************)
EntryTuple(e) == [username |-> e.username, password |-> e.password, ok |-> e.valid]

C4_CachedWithinTTL ==
    [][/\ \A k \in DOMAIN cache : now' < cache[k].expireAt =>
            /\ k \in DOMAIN cache'
            /\ EntryTuple(cache'[k]) = EntryTuple(cache[k])
            /\ cache'[k].expireAt >= cache[k].expireAt
       /\ \A p \in Procs :
            /\ (pc[p] = "writing" /\ pc'[p] = "returned") =>
                 EntryTuple(cache'[tok[p]]) = res'[p] /\ res'[p] = res[p]
            /\ (LeavesLookup(p) /\ tok[p] \in DOMAIN cache) =>
                 /\ now < cache[tok[p]].expireAt =>
                      /\ pc'[p] = "returned" /\ hit'[p] /\ ~parsed'[p]
                      /\ res'[p] = EntryTuple(cache[tok[p]])
                 /\ now > cache[tok[p]].expireAt =>
                      parsed'[p] /\ ~hit'[p]]_vars

\* the cached result of a malformed token was served one tick before its
\* expireAt, without parsing
C4_Witness ==
    \E p \in Procs :
        /\ pc[p] = "returned" /\ hit[p] /\ ~parsed[p]
        /\ tok[p] = MalformedToken /\ res[p] = Failed
        /\ tok[p] \in DOMAIN cache /\ ~cache[tok[p]].valid
        /\ now + 1 = cache[tok[p]].expireAt

(***************************************************************************)
(* C5: no read of the cache map overlaps a write, no two writes overlap,   *)
(* and concurrent calls with the same token return the same tuple.         *)
(***************************************************************************)
Reading == {p \in Procs : pc[p] = "reading"}
Writing == {p \in Procs : pc[p] = "writing"}
Sweeping == IF sweeper.pc = "sweep" THEN 1 ELSE 0

C5_NoRace ==
    /\ Reading # {} => Cardinality(Writing) + Sweeping = 0
    /\ Cardinality(Writing) + Sweeping <= 1
    /\ \A p, q \in Procs :
         (pc[p] = "returned" /\ pc[q] = "returned" /\ tok[p] = tok[q])
            => res[p] = res[q]

\* two calls with the same token both missed and both stored
C5_Witness ==
    \E p, q \in Procs :
        /\ p # q /\ tok[p] = ValidToken /\ tok[q] = ValidToken
        /\ pc[p] = "returned" /\ parsed[p]
        /\ pc[q] = "returned" /\ parsed[q]

(***************************************************************************)
(* C2: the handler rejects with 401 unless username and password both      *)
(* equal the configured ones.                                              *)
(***************************************************************************)
C2_RejectUnlessBothMatch ==
    \A p \in Procs : pc[p] \in {"checked", "handled", "panicked"} =>
        (status[p] = StatusUnauthorized <=>
            ~(res[p].ok /\ res[p].username = FlagUsername
                        /\ res[p].password = FlagPassword))

(***************************************************************************)
(* C3: on a request the handler answered with 401, ReverseProxy.ServeHTTP  *)
(* is never invoked.                                                       *)
(***************************************************************************)
C3_NoForwardAfter401 ==
    \A p \in Procs : status[p] = StatusUnauthorized => ~served[p]

(***************************************************************************)
(* C6: in the running server every cache entry is eventually removed       *)
(* after its expireAt has passed.                                          *)
(***************************************************************************)
C6_ExpiredEventuallyRemoved ==
    \A k \in ServerTokens :
        (k \in DOMAIN cache /\ now > cache[k].expireAt)
            ~> (k \notin DOMAIN cache)

(***************************************************************************)
(* C7: every malformed token yields ok = false with empty username and     *)
(* password, on the first call and on every cached call.                   *)
(***************************************************************************)
C7_MalformedRejected ==
    \A p \in Procs :
        (pc[p] \in {"wlock", "writing", "returned"} /\ tok[p] \in MalformedTokens)
            => res[p] = Failed

\* a token with a username of 65 bytes was answered from the cache
C7_Witness ==
    \E p \in Procs :
        /\ pc[p] = "returned" /\ hit[p] /\ ~parsed[p]
        /\ tok[p] \in LongUsernameTokens

(***************************************************************************)
(* C8: CompareCredentials returns true if and only if the input username   *)
(* equals the expected one and the input password equals the expected one, *)
(* byte for byte.                                                          *)
(***************************************************************************)
C8_CompareIffBothEqual ==
    cmp.pc = "done" =>
        (cmp.result <=> (cmp.inputUser = cmp.expectedUser
                         /\ cmp.inputPass = cmp.expectedPass))

\* equal usernames, and a password that is a proper prefix of the expected one
C8_Witness ==
    /\ cmp.pc = "done" /\ ~cmp.result
    /\ cmp.inputUser = cmp.expectedUser /\ Len(cmp.inputUser) > 0
    /\ cmp.inputPass = <<97>> /\ cmp.expectedPass = <<97, 98>>

(***************************************************************************)
(* C9: removeHeaders deletes every header named by a token of the          *)
(* Connection header value(s) and every header of the hop-by-hop set, and  *)
(* leaves every other header and its values unchanged.                     *)
(***************************************************************************)
ConnectionTokens(header) ==
    IF hopHeaders[1] \notin DOMAIN header THEN {}
    ELSE UNION { {TrimSpace(f) : f \in Range(Split(header[hopHeaders[1]][i], ","))}
                 : i \in 1..Len(header[hopHeaders[1]]) } \ {<<>>}

C9_RemovesHopByHop ==
    hdr.pc = "done" =>
        LET gone == {CanonicalMIMEHeaderKey(t) : t \in ConnectionTokens(hdr.before)}
                    \cup Range(hopHeaders)
        IN /\ DOMAIN hdr.after = DOMAIN hdr.before \ gone
           /\ \A k \in DOMAIN hdr.after : hdr.after[k] = hdr.before[k]

(***************************************************************************)
(* C10, as stated: the outbound URL has the target's scheme and host, a    *)
(* path with exactly one slash where the target path and the inbound path  *)
(* meet, and the merged query.                                             *)
(***************************************************************************)
RECURSIVE TrimRightSlashes(_)
TrimRightSlashes(a) ==
    IF HasSuffix(a, <<"/">>) THEN TrimRightSlashes(SubSeq(a, 1, Len(a) - 1)) ELSE a

RECURSIVE TrimLeftSlashes(_)
TrimLeftSlashes(b) ==
    IF HasPrefix(b, <<"/">>) THEN TrimLeftSlashes(From(b, 1)) ELSE b

MergedQuery(t, q) ==
    IF t = <<>> THEN q ELSE IF q = <<>> THEN t ELSE t \o <<"&">> \o q

C10_ExactlyOneSlash ==
    dir.pc = "done" =>
        /\ dir.out.URL.Scheme = dir.target.Scheme
        /\ dir.out.URL.Host = dir.target.Host
        /\ dir.out.URL.Path = TrimRightSlashes(dir.target.Path) \o <<"/">>
                              \o TrimLeftSlashes(dir.req.URL.Path)
        /\ dir.out.URL.RawQuery =
              MergedQuery(dir.target.RawQuery, dir.req.URL.RawQuery)

(***************************************************************************)
(* C10, amended: the path is the target path without one trailing slash,   *)
(* one slash, and the inbound path without one leading slash; so there is  *)
(* exactly one slash at the junction unless the target path ends in "//"   *)
(* or the inbound path begins with "//".                                   *)
(***************************************************************************)
DropOneRight(a) == IF HasSuffix(a, <<"/">>) THEN SubSeq(a, 1, Len(a) - 1) ELSE a
DropOneLeft(b) == IF HasPrefix(b, <<"/">>) THEN From(b, 1) ELSE b

C10_OneSlashDroppedEachSide ==
    dir.pc = "done" =>
        /\ dir.out.URL.Scheme = dir.target.Scheme
        /\ dir.out.URL.Host = dir.target.Host
        /\ dir.out.URL.Path = DropOneRight(dir.target.Path) \o <<"/">>
                              \o DropOneLeft(dir.req.URL.Path)
        /\ (~HasSuffix(dir.target.Path, <<"/", "/">>)
            /\ ~HasPrefix(dir.req.URL.Path, <<"/", "/">>))
              => dir.out.URL.Path = TrimRightSlashes(dir.target.Path) \o <<"/">>
                                    \o TrimLeftSlashes(dir.req.URL.Path)
        /\ dir.out.URL.RawQuery =
              MergedQuery(dir.target.RawQuery, dir.req.URL.RawQuery)

\* a target path with a trailing slash met an inbound path with a leading
\* slash, and both queries were set
C10_Witness ==
    /\ dir.pc = "done"
    /\ dir.target.Path = <<"a", "/">> /\ dir.req.URL.Path = <<"/", "a">>
    /\ dir.out.URL.Path = <<"a", "/", "a">>
    /\ dir.target.RawQuery # <<>> /\ dir.req.URL.RawQuery # <<>>

(***************************************************************************)
(* C11: ServeHTTP routes every request to exactly one outcome: with no URL *)
(* the response is 400; otherwise CONNECT runs the tunnel path only, GET,  *)
(* POST, PUT, DELETE, HEAD, OPTIONS and PATCH run the forwarding path      *)
(* only, and any other method gets 405.  On the 400 and 405 outcomes       *)
(* neither path runs and neither hook is invoked, now or later.            *)
(***************************************************************************)
Rejected(code) ==
    /\ rp.pc = "done"
    /\ rp.rw = [status |-> code, from |-> "proxy",
                text |-> IF code = 400 THEN "Bad Request" ELSE "Method Not Allowed",
                body |-> <<>>]
    /\ fwd = NoCall /\ tun = NoCall
    /\ rp.connects = 0 /\ rp.errors = <<>>

C11_OneOutcomePerRequest ==
    rp.pc \notin {"none", "ServeHTTP"} =>
        IF rp.urlNil THEN Rejected(400)
        ELSE IF rp.method = "CONNECT"
             THEN tun # NoCall /\ fwd = NoCall /\ rp.rw.status \notin {400, 405}
        ELSE IF rp.method \in {"GET", "POST", "PUT", "DELETE", "HEAD",
                               "OPTIONS", "PATCH"}
             THEN fwd # NoCall /\ tun = NoCall /\ rp.rw.status \notin {400, 405}
        ELSE Rejected(405)

\* a TRACE request to a proxy with both hooks set was answered with 405
C11_Witness ==
    /\ rp.pc = "done" /\ rp.method = "TRACE" /\ ~rp.urlNil
    /\ rp.onConnect /\ rp.onError
    /\ rp.rw.status = 405 /\ rp.connects = 0 /\ rp.errors = <<>>

(***************************************************************************)
(* C12: in the forwarding path the on-connect hook, when set, is invoked   *)
(* before the round trip; the round trip is attempted at most once; and    *)
(* when the round trip fails or the response modifier returns an error,    *)
(* the client gets status 502, the error hook, when set, is invoked with   *)
(* that error, and nothing of the upstream response (status, headers,      *)
(* body) is written to the client.                                         *)
(***************************************************************************)
\* ProxyHTTP left before the copy of the body: res.Body was never closed
FailedBeforeCopy == fwd.pc \in {"return", "returned"} /\ ~fwd.closed

C12_FailureGives502 ==
    fwd.pc # "none" =>
        /\ fwd.roundTrips <= 1
        /\ fwd.roundTrips = 1 => rp.connects = (IF rp.onConnect THEN 1 ELSE 0)
        /\ fwd.pc = "start" => rp.connects = 0
        /\ FailedBeforeCopy =>
              /\ fwd.err # nil
              /\ rp.rw.status = 502 /\ rp.rw.from = "proxy" /\ rp.rw.body = <<>>
              /\ rp.onError => \E i \in 1..Len(rp.errors) : rp.errors[i] = fwd.err
              /\ ~rp.onError => rp.errors = <<>>

\* the response modifier failed after the one round trip, with both hooks set
C12_Witness ==
    /\ fwd.pc = "returned" /\ fwd.roundTrips = 1 /\ ~fwd.closed
    /\ fwd.err = ErrPlain("modify failed")
    /\ rp.onConnect /\ rp.connects = 1
    /\ rp.errors = <<ErrPlain("modify failed")>>
    /\ rp.rw.status = 502

(***************************************************************************)
(* C13: when the dial to the CONNECT target fails, the raw line            *)
(* "HTTP/1.1 504 Gateway Timeout" is written to the hijacked client        *)
(* connection, the error hook is invoked, the "200 Connection Established" *)
(* line is never written, no relay goroutine is started, and the client    *)
(* connection is closed when the handler returns.                          *)
(***************************************************************************)
\* the handler left after hijack and before a successful dial
DialFailed == tun.pc \in {"defers", "returned", "crashed"} /\ tun.hijacked /\ ~tun.dialed

C13_DialFailureGives504 ==
    (tun.pc # "none" /\ DialFailed) =>
        /\ tun.raw = <<"HTTP/1.1 504 Gateway Timeout">>
        /\ rp.onError => Len(rp.errors) >= 1 /\ rp.errors[1] = ErrDial
        /\ tun.spawned = 0
        /\ \A r \in Relays : tun.relay[r].pc = "none"
        /\ tun.conn["upstream"].closes = 0
        /\ tun.pc = "returned" => tun.conn["client"].closes = 1

\* the dial failed, the hook ran without a panic, the handler returned
C13_Witness ==
    /\ tun.pc = "returned" /\ tun.hijacked /\ ~tun.dialed
    /\ tun.raw = <<"HTTP/1.1 504 Gateway Timeout">>
    /\ rp.errors = <<ErrDial>>
    /\ tun.conn["client"].closes = 1

Established == tun.pc # "none" /\ tun.spawned > 0

Done(r) == tun.relay[r].pc = "done"

C15_BothRelaysJoined ==
    Established =>
        /\ tun.spawned = 2
        /\ \A r \in Relays : tun.relay[r].pc # "none"
        /\ tun.pc = "returned" => \A r \in Relays : Done(r)

(***************************************************************************)
(* C15, amended: the handler spawns exactly two relay goroutines and takes *)
(* their signals in order of arrival.  It returns after two signals, both  *)
(* relays being finished, or at the first signal that is an error, the     *)
(* relay that sent it being finished and the other one possibly not; it    *)
(* then closes both connections under the running relay.  As long as it    *)
(* waits, every signal taken was nil.                                      *)
(***************************************************************************)
C15_JoinedUnlessError ==
    Established =>
        /\ tun.spawned = 2
        /\ \A r \in Relays : tun.relay[r].pc # "none"
        /\ Cardinality({r \in Relays : Done(r)}) = tun.received + Len(tun.errChan)
        /\ tun.pc = "wait" => tun.received < 2 /\ tun.err = nil
        /\ tun.pc = "returned" =>
              /\ tun.received \in {1, 2}
              /\ tun.err = nil => tun.received = 2 /\ \A r \in Relays : Done(r)
              /\ tun.received = 1 => tun.err # nil /\ ~isClosedConnError(tun.err)
              /\ \A c \in Conns : tun.conn[c].closes = 1

\* the handler returned on the error of the upward relay while the downward
\* relay held bytes it had read and not yet written
C15_Witness ==
    /\ tun.pc = "returned" /\ tun.received = 1 /\ tun.err = ErrNoRoute
    /\ Done("up") /\ tun.relay["down"].pc = "write"
    /\ tun.relay["down"].buf # <<>>

(***************************************************************************)
(* C16: a tunnel cannot outlive its deadline.  One absolute deadline, the  *)
(* time of establishment plus Timeout, or plus ten minutes when Timeout    *)
(* <= 0, is set on both legs and is never changed afterwards.  Once it     *)
(* has passed, whatever the peers do (stalled, silent), both relays        *)
(* finish, the handler returns and both connections are closed.            *)
(***************************************************************************)
\* the tunnel is established at time 0 of its clock, with Timeout 0 or 1
DeadlineSet ==
    Established =>
        /\ tun.conn["client"].deadline = tun.conn["upstream"].deadline
        /\ tun.conn["client"].deadline \in {0 + 1, 0 + 10}

DeadlineKept ==
    Established =>
        \A c \in Conns : tun'.conn[c].deadline = tun.conn[c].deadline

Expired == Established /\ tun.now >= tun.conn["client"].deadline

TornDown ==
    /\ tun.pc = "returned"
    /\ \A r \in Relays : Done(r)
    /\ \A c \in Conns : tun.conn[c].closes = 1

C16_NoTunnelOutlivesDeadline ==
    /\ []DeadlineSet
    /\ [][DeadlineKept]_vars
    /\ Expired ~> TornDown

\* the deadline passed on a tunnel whose client had stalled and whose
\* upstream stayed open; both relays ended on the timeout alone
C16_Witness ==
    /\ Expired /\ TornDown
    /\ tun.conn["client"].peer = "stalled" /\ tun.conn["upstream"].peer = "open"
    /\ tun.received = 2 /\ tun.err = nil /\ rp.errors = <<>>

(***************************************************************************)
(* C17: when a flushLoop was spawned for a response (FlushInterval > 0),   *)
(* on every return path of ProxyHTTP it is signalled to stop and has       *)
(* exited before ProxyHTTP returns; no flushLoop is running, and no Flush  *)
(* of the ResponseWriter happens, after ProxyHTTP has returned.            *)
(***************************************************************************)
C17_FlushLoopExitedAtReturn ==
    (fwd.pc # "none" /\ fwd.pc = "returned") => fwd.mlw.pc \in {"none", "exited"}

(***************************************************************************)
(* C17, amended: on every return path of ProxyHTTP a spawned flushLoop has *)
(* taken the stop signal before ProxyHTTP returns: it is past its select   *)
(* for good, so it takes no tick and makes no Flush after the return, but  *)
(* it may still be running its exit code; it exits eventually.             *)
(***************************************************************************)
StoppedAtReturn ==
    fwd.pc # "none" =>
        /\ fwd.pc = "return" => fwd.mlw.pc = "none"
        /\ fwd.pc = "returned" => fwd.mlw.pc \in {"none", "exiting", "exited"}

NoFlushAfterReturn ==
    (fwd.pc # "none" /\ fwd.pc = "returned") =>
        /\ fwd'.mlw.pc \notin {"select", "lock", "flushing"}
        /\ fwd'.mlw.mu = fwd.mlw.mu

C17_FlushLoopStoppedAtReturn ==
    /\ []StoppedAtReturn
    /\ [][NoFlushAfterReturn]_vars
    /\ (fwd.pc = "returned")
          ~> (fwd.pc = "returned" /\ fwd.mlw.pc \in {"none", "exited"})

\* ProxyHTTP has returned after a full copy and the flushLoop, stop signal
\* taken, has not yet exited
C17_Witness ==
    /\ fwd.pc = "returned" /\ fwd.mlw.pc = "exiting"
    /\ fwd.err = nil /\ rp.rw.body = fwd.body /\ fwd.body # <<>>

(***************************************************************************)
(* C18: while a response body is streamed through maxLatencyWriter, a      *)
(* Write to the ResponseWriter and a Flush of it are never in progress at  *)
(* the same time, in any interleaving of the copy and the flushLoop; both  *)
(* take the same mutex, and stop() cannot deadlock with a Flush that holds *)
(* it: a stop() that has begun completes.                                  *)
(***************************************************************************)
WriteOrFlush ==
    fwd.pc # "none" =>
        /\ ~(fwd.pc = "writing" /\ fwd.mlw.pc = "flushing")
        /\ fwd.pc = "writing" => fwd.mlw.mu = "Write"
        /\ fwd.mlw.pc = "flushing" => fwd.mlw.mu = "Flush"

C18_WriteAndFlushExclude ==
    /\ []WriteOrFlush
    /\ (fwd.pc = "stop") ~> (fwd.pc = "returned")

\* the copy waits in Write for the mutex that a Flush holds
C18_Witness ==
    /\ fwd.pc = "write" /\ fwd.buf # <<>>
    /\ fwd.mlw.pc = "flushing" /\ fwd.mlw.mu = "Flush"

(***************************************************************************)
(* C19: in the forwarding path the bytes written to the client are exactly *)
(* the bytes of the upstream response body, in order, none dropped,        *)
(* duplicated or altered, for every body length and every buffer size      *)
(* >= 1, also for bodies longer than the buffer; and the request body      *)
(* reaches the upstream unchanged.  At every moment the client has a       *)
(* prefix of the body, and the whole body once the copy ended without an   *)
(* error.                                                                  *)
(***************************************************************************)
IsPrefix(a, b) == Len(a) <= Len(b) /\ a = SubSeq(b, 1, Len(a))

C19_BodyCopiedUnchanged ==
    fwd.pc # "none" =>
        /\ fwd.roundTrips = 1 => fwd.sent = rp.body
        /\ IsPrefix(rp.rw.body, fwd.body)
        /\ fwd.pc \in {"read", "write", "writing"} =>
              rp.rw.body \o fwd.buf = SubSeq(fwd.body, 1, fwd.n)
        /\ (fwd.closed /\ fwd.err = nil) => rp.rw.body = fwd.body

\* a body of two bytes went through a buffer of one byte, after a request
\* with a body
C19_Witness ==
    /\ fwd.pc = "returned" /\ fwd.closed /\ fwd.err = nil
    /\ fwd.bufSize = 1 /\ Len(fwd.body) = 2 /\ rp.rw.body = fwd.body
    /\ rp.body = <<9, 8>> /\ fwd.sent = <<9, 8>>

(***************************************************************************)
(* C20: after "200 Connection Established" every byte the client sends is  *)
(* delivered to the upstream and every byte the upstream sends to the      *)
(* client, each direction in order and unmodified, and the relay goes on   *)
(* in both directions until either side closes its connection; a clean end *)
(* of one direction does not stop the other.                               *)
(***************************************************************************)
\* what the peer of connection c has sent so far
Sent(c) == SubSeq(Script(c), 1, tun.conn[c].sent)

SomeSideClosed == \E c \in Conns : tun.conn[c].peer \in {"fin", "closed"}

InOrderUnmodified ==
    \A r \in Relays :
        /\ IsPrefix(tun.conn[Dst(r)].got, Sent(Src(r)))
        /\ ~Done(r) =>
              tun.conn[Dst(r)].got \o tun.relay[r].buf \o tun.conn[Src(r)].in
                 = Sent(Src(r))

C20_RelayedUntilClose ==
    Established =>
        /\ InOrderUnmodified
        /\ tun.pc = "returned" => SomeSideClosed

(***************************************************************************)
(* C20, amended: what is delivered in a direction is always a prefix of    *)
(* what was sent in it, in order and unmodified, and nothing is lost while *)
(* the relay of that direction runs.  The handler ends the tunnel only     *)
(* when a side has closed or half-closed, when the deadline has passed, or *)
(* when a relay signalled an error that is not a closed-connection error;  *)
(* a first signal that is nil leaves both connections open and the other   *)
(* direction running.                                                      *)
(***************************************************************************)
C20_RelayedUntilCloseDeadlineOrError ==
    Established =>
        /\ InOrderUnmodified
        /\ tun.pc = "returned" => SomeSideClosed \/ Expired \/ tun.err # nil
        /\ (tun.received = 1 /\ tun.err = nil) =>
              tun.pc = "wait" /\ \A c \in Conns : tun.conn[c].closes = 0

\* the client half-closed after its two bytes, the upward relay ended
\* cleanly and the handler took its nil signal; the downward relay still
\* carries a byte of the upstream to the client
C20_Witness ==
    /\ Established /\ tun.pc = "wait"
    /\ tun.received = 1 /\ tun.err = nil
    /\ Done("up") /\ tun.conn["client"].peer = "fin"
    /\ tun.conn["upstream"].got = Script("client")
    /\ tun.relay["down"].pc = "write" /\ tun.relay["down"].buf # <<>>
    /\ tun.conn["client"].got # <<>>

(***************************************************************************)
(* C21: isClosedConnError returns false for a nil error, true for          *)
(* end-of-file, closed-pipe and unexpected-EOF errors and for errors whose *)
(* text contains a recognized phrase, and false for every error whose text *)
(* is an unrelated string.  As stated, the last part fails: the function   *)
(* also looks at what kind of error it has.                                *)
(***************************************************************************)
Sentinels == {EOF, ErrClosedPipe, ErrUnexpectedEOF}

HasPhrase(err) == \E ph \in ClosedPhrases : Contains(err.text, ph)

\* the text is neither that of a recognized error nor holds a phrase
UnrelatedText(err) ==
    /\ ~HasPhrase(err)
    /\ \A e \in Sentinels : err.text # e.text

C21_UnrelatedTextNotClosed ==
    cls.pc = "done" =>
        /\ cls.err = nil => ~cls.result
        /\ cls.err \in Sentinels => cls.result
        /\ cls.err # nil /\ HasPhrase(cls.err) => cls.result
        /\ cls.err # nil /\ UnrelatedText(cls.err) => ~cls.result

\* a *net.OpError that reports a timeout or a temporary condition, or that
\* wraps ECONNRESET or EPIPE
ClosedByKind(err) ==
    /\ err.type = "*net.OpError"
    /\ err.timeout \/ err.temporary \/ err.errno \in {"ECONNRESET", "EPIPE"}

\* C21, amended: false for nil; true for the three io values themselves,
\* for a network error that is a timeout, temporary, a reset or a broken
\* pipe, and for any text that holds a phrase; false for every other error
C21_ClosedByValueKindOrPhrase ==
    cls.pc = "done" =>
        /\ cls.err = nil => ~cls.result
        /\ cls.err \in Sentinels => cls.result
        /\ cls.err # nil /\ HasPhrase(cls.err) => cls.result
        /\ cls.err # nil /\ ClosedByKind(cls.err) => cls.result
        /\ cls.err # nil /\ cls.err \notin Sentinels /\ ~HasPhrase(cls.err)
           /\ ~ClosedByKind(cls.err) => ~cls.result
        /\ cls.err = ErrPlain("some other error") => ~cls.result
        /\ cls.err = ErrPlain("GEOFENCE lookup failed") => cls.result
        /\ cls.err = Wrap("copy: ", ErrClosedPipe) => ~cls.result

\* a temporary network error with an unrelated text was classified
C21_Witness ==
    /\ cls.pc = "done"
    /\ cls.err = ErrInterrupted
    /\ cls.result

(***************************************************************************)
(* C22: if the first completion signal the tunnel handler receives is a    *)
(* non-benign error, the handler returns at once, without waiting for the  *)
(* other relay task, and the deferred closes of both connections run; if   *)
(* the first signal is nil, the handler waits for the second signal before *)
(* it returns.                                                             *)
(***************************************************************************)
\* the handler takes a signal from errChan in this step
Receives == tun.pc = "wait" /\ tun'.received = tun.received + 1

BothClosedOnce(t) == \A c \in Conns : t.conn[c].closes = 1

C22_ReturnOnFirstError ==
    [][Receives =>
         LET err == Head(tun.errChan) IN
         /\ err # nil => ~isClosedConnError(err)
         /\ IF err # nil
            THEN tun'.pc = "returned" /\ BothClosedOnce(tun')
            ELSE IF tun.received = 0
            THEN tun'.pc = "wait" /\ \A c \in Conns : tun'.conn[c].closes = 0
            ELSE tun'.pc = "returned" /\ BothClosedOnce(tun')]_vars

\* the handler returned on the first signal, an error, while the other
\* relay is still copying
C22_Witness ==
    /\ tun.pc = "returned"
    /\ tun.received = 1
    /\ tun.err # nil
    /\ \E r \in Relays : tun.relay[r].pc \in {"read", "write"}
    /\ BothClosedOnce(tun)

(***************************************************************************)
(* C23: no relay task leaks.  Each relay task sends exactly one signal on  *)
(* the completion channel; that send never blocks, because the channel has *)
(* capacity 2, also when the handler has returned early and will never     *)
(* receive; and after the handler returns on any path, the deferred closes *)
(* make the copy of every relay task still running fail, so that both      *)
(* relay tasks terminate in the end.                                       *)
(***************************************************************************)
\* the signals sent so far: those waiting in errChan and those taken
Signals == Len(tun.errChan) + tun.received

Finished == {r \in Relays : tun.relay[r].pc = "done"}

OneSignalEach ==
    tun.pc # "none" =>
        /\ Signals = Cardinality(Finished)
        /\ \A r \in Relays : tun.relay[r].pc # "send"
        /\ Len(tun.errChan) <= 2

C23_NoRelayLeak ==
    /\ []OneSignalEach
    /\ [][\A r \in Relays :
            tun.pc # "none" /\ tun.relay[r].pc = "done" =>
                tun'.relay[r].pc = "done"]_vars
    /\ (tun.pc = "returned" /\ tun.spawned = 2) ~>
           (tun.pc = "returned" /\ Finished = Relays)

\* the handler has returned on an error, the late relay found its
\* connection closed and its signal lies in errChan, never to be taken
C23_Witness ==
    /\ tun.pc = "returned"
    /\ tun.received = 1
    /\ tun.err # nil
    /\ Finished = Relays
    /\ Len(tun.errChan) = 1

(***************************************************************************)
(* C24: a relay task whose copy ends cleanly or with an error classified   *)
(* as connection-closed half-closes the write side of its destination,     *)
(* signals nil and does not invoke the error hook; a relay task whose copy *)
(* ends with an unrecognized error invokes the error hook, signals that    *)
(* error and does not half-close; a half-close never closes the read side  *)
(* that the other relay task is still using.                               *)
(***************************************************************************)
\* relay r leaves io.CopyBuffer in this step
RelayEnds(r) ==
    /\ tun.pc # "none"
    /\ tun.relay[r].pc \in {"read", "write"}
    /\ tun'.relay[r].pc = "done"

\* the results io.CopyBuffer can give relay r in this state
CopyResults(r) ==
    LET outs == IF tun.relay[r].pc = "read"
                THEN {ReadOutcome(tun.conn[Src(r)], tun.now, f) : f \in BOOLEAN}
                ELSE {WriteOutcome(tun.conn[Dst(r)], tun.now)}
    IN {o.err : o \in {x \in outs : x.kind = "ends"}}

Last(s) == s[Len(s)]

\* what the relay that got err from its copy did in this step
EndedWith(r, err) ==
    LET dst == tun.conn[Dst(r)]
        dst2 == tun'.conn[Dst(r)]
        sig == Last(tun'.errChan)
    IN /\ Len(tun'.errChan) = Len(tun.errChan) + 1
       /\ IF err = nil \/ isClosedConnError(err)
          THEN /\ sig = nil
               /\ rp'.errors = rp.errors
               /\ dst2.half \/ dst.closes > 0
          ELSE /\ sig = err
               /\ rp'.errors = Append(rp.errors, err)
               /\ dst2.half = dst.half

\* the connections are as open as before, and a Read gives what it gave
ReadSideKept ==
    \A c \in Conns :
        /\ tun'.conn[c].closes = tun.conn[c].closes
        /\ ReadOutcome(tun'.conn[c], tun.now, FALSE)
             = ReadOutcome(tun.conn[c], tun.now, FALSE)

C24_HalfCloseOrReport ==
    [][\A r \in Relays :
         RelayEnds(r) =>
             /\ \E err \in CopyResults(r) : EndedWith(r, err)
             /\ ReadSideKept]_vars

\* the relay to the upstream ended cleanly and half-closed the upstream
\* connection, and the other relay still reads bytes from it
C24_Witness ==
    /\ tun.pc = "wait"
    /\ tun.relay["up"].pc = "done"
    /\ tun.conn["upstream"].half
    /\ tun.errChan = <<nil>>
    /\ rp.errors = <<>>
    /\ tun.relay["down"].pc = "read"
    /\ ReadOutcome(tun.conn["upstream"], tun.now, FALSE) = Moves

(***************************************************************************)
(* C25: tunnel establishment is ordered.  The client connection is         *)
(* hijacked before the target is dialed; the deadline is applied to the    *)
(* client and to the upstream connection before the 200 line is written;   *)
(* the 200 line is written before any relay task starts; and if setting    *)
(* either deadline or writing the 200 line fails, no relay task is started *)
(* and the error hook is invoked.                                          *)
(***************************************************************************)
Has200 == \E i \in 1..Len(tun.raw) : tun.raw[i] = "HTTP/1.1 200 Connection Established"

\* the handler left after a successful dial and before the go statements
FailedAfterDial ==
    /\ tun.pc \in {"defers", "returned", "crashed"}
    /\ tun.dialed
    /\ tun.spawned = 0

C25_EstablishmentOrdered ==
    tun.pc # "none" =>
        /\ tun.dialed => tun.hijacked
        /\ \A c \in Conns : tun.conn[c].deadline # NoDeadline => tun.dialed
        /\ Has200 => /\ tun.conn["client"].deadline # NoDeadline
                     /\ tun.conn["upstream"].deadline = tun.conn["client"].deadline
        /\ tun.spawned > 0 => Has200 /\ tun.spawned = 2
        /\ (\E r \in Relays : tun.relay[r].pc # "none") => tun.spawned = 2
        /\ FailedAfterDial =>
             /\ ~Has200
             /\ \A r \in Relays : tun.relay[r].pc = "none"
             /\ Len(rp.errors) >= 1
             /\ rp.errors[1] \in {ErrPlain("set deadline"), ErrBrokenPipe}

\* setting the deadline of the upstream connection failed
C25_Witness ==
    /\ tun.pc = "returned"
    /\ FailedAfterDial
    /\ tun.conn["client"].deadline # NoDeadline
    /\ tun.conn["upstream"].deadline = NoDeadline
    /\ rp.errors = <<ErrPlain("set deadline")>>

(***************************************************************************)
(* C26: every CONNECT request whose tunnel fails before the 200 line gets  *)
(* exactly one status from the proxy before the connection closes: a       *)
(* structured 503 when tunneling is disabled or the connection cannot be   *)
(* hijacked (and then no dial is attempted), or the raw 504 line for a     *)
(* failure after hijacking; no failing path closes the client connection   *)
(* without a status and none writes the 200 line.  The code returns        *)
(* without any status when SetDeadline or the write of the 200 line fails. *)
(***************************************************************************)
\* ProxyHTTPS is over and no 200 line was written
FailedBefore200 == tun.pc \in {"returned", "crashed"} /\ ~Has200

C26_OneStatusBefore200 ==
    FailedBefore200 =>
        IF ~tun.hijacked
        THEN /\ rp.rw.status = StatusServiceUnavailable
             /\ rp.rw.from = "proxy"
             /\ tun.raw = <<>>
             /\ ~tun.dialed
        ELSE /\ tun.raw = <<"HTTP/1.1 504 Gateway Timeout">>
             /\ rp.rw.status = 0

(***************************************************************************)
(* C27: a panic raised during tunnel handling after the hijack, in the     *)
(* handler or in either relay task, is recovered: it is converted into one *)
(* error-hook invocation, the client connection is still closed, and the   *)
(* process does not crash.  A panic in a relay task is not recovered.      *)
(***************************************************************************)
C27_PanicRecovered ==
    /\ rp.pc # "exit"
    /\ tun.pc # "none" =>
         /\ \A r \in Relays : tun.relay[r].pc # "panicked"
         /\ tun.pc \in {"returned", "crashed"} /\ tun.hijacked =>
              tun.conn["client"].closes = 1

(***************************************************************************)
(* C28: in the forwarding path, if the client disconnects before the round *)
(* trip completes, the outbound request is cancelled on the upstream       *)
(* transport and the error hook fires with a client-disconnected error; if *)
(* the round trip completes first, neither happens; in both cases the      *)
(* watcher task has a way to terminate once ProxyHTTP returns, the done    *)
(* channel being closed on every return path.  As stated, the second part  *)
(* fails: the watcher waits until ProxyHTTP returns, not until the round   *)
(* trip is over.                                                           *)
(***************************************************************************)
ErrClientGone == ErrPlain("client connection closed")

\* how often the hook got the client-disconnected error
Disconnects == Cardinality({i \in 1..Len(rp.errors) : rp.errors[i] = ErrClientGone})

WatcherCanEnd ==
    /\ fwd.pc = "returned" => fwd.reqDone
    /\ fwd.reqDone => fwd.pc = "returned"

C28_CancelOnlyBeforeRoundTrip ==
    fwd.pc # "none" =>
        /\ fwd.cancelled => fwd.gone = "before"
        /\ Disconnects > 0 => fwd.gone = "before"
        /\ WatcherCanEnd

\* C28, amended: the watcher cancels the outbound request and calls the
\* hook, once, only after a disconnect, which may come before the round
\* trip is over or later, until the watcher has seen ProxyHTTP return;
\* without a disconnect neither happens; the done channel is closed at
\* every return of ProxyHTTP and at no other time
C28_CancelOnDisconnectUntilReturn ==
    fwd.pc # "none" =>
        /\ fwd.cancelled => fwd.gone # "no" /\ fwd.watch = "done"
        /\ Disconnects = (IF fwd.cancelled /\ rp.onError THEN 1 ELSE 0)
        /\ fwd.gone = "before" /\ fwd.pc = "roundtrip" /\ fwd.watch = "done"
             => fwd.cancelled
        /\ fwd.watch = "none" => fwd.gone = "no" /\ ~fwd.cancelled
        /\ WatcherCanEnd

\* the client went away while the body was copied, and the watcher
\* cancelled the request and called the hook
C28_Witness ==
    /\ fwd.pc = "write"
    /\ fwd.gone = "after"
    /\ fwd.cancelled
    /\ Disconnects = 1

(***************************************************************************)
(* C29: in the forwarding path, when the upstream does not produce         *)
(* response headers within the effective timeout (Timeout if > 0, else 10  *)
(* minutes), the round trip in flight is aborted through the request       *)
(* context and the client receives a gateway error status (here 502)       *)
(* instead of waiting for the upstream; the timeout context is released on *)
(* every return path of ServeHTTP.                                         *)
(***************************************************************************)
RoundTripOver == fwd.pc # "none" /\ fwd.roundTrips = 1

TimedOut == RoundTripOver /\ fwd.waited = rp.ctx.timeout

C29_TimeoutAbortsRoundTrip ==
    /\ rp.pc # "none" /\ rp.ctx.state # "none" => rp.ctx.timeout > 0
    /\ RoundTripOver => fwd.waited <= rp.ctx.timeout
    /\ TimedOut =>
          /\ fwd.err = ErrDeadlineExceeded
          /\ fwd.pc \in {"return", "returned"}
          /\ fwd.body = <<>>
          /\ rp.rw.status = StatusBadGateway /\ rp.rw.from = "proxy"
          /\ rp.onError => ErrDeadlineExceeded \in Range(rp.errors)
    /\ rp.pc \in {"ProxyHTTP", "ProxyHTTPS"} => rp.ctx.state = "live"
    /\ rp.pc \in {"done", "panicked"} =>
          rp.ctx.state = (IF rp.urlNil THEN "none" ELSE "released")

\* the upstream was slower than the configured Timeout: the client has its
\* 502 and ServeHTTP has returned and released the context
C29_Witness ==
    /\ rp.pc = "done"
    /\ TimedOut
    /\ rp.ctx = [state |-> "released", timeout |-> 1]
    /\ fwd.err = ErrDeadlineExceeded
    /\ rp.rw.status = StatusBadGateway

(***************************************************************************)
(* C30: when copying the response body fails after the status was sent,    *)
(* the error hook is invoked if and only if the error is not classified as *)
(* connection-closed; in both cases the handler does not panic, the status *)
(* already sent is not changed or sent again, the upstream body is closed  *)
(* and the handler returns normally.                                       *)
(***************************************************************************)
\* the copy of the body ended with an error
CopyHasFailed ==
    /\ fwd.pc \in {"stop", "return", "returned"}
    /\ fwd.err \in CopyErrors

\* how often the hook got err
HookCalls(err) == Cardinality({i \in 1..Len(rp.errors) : rp.errors[i] = err})

CopyFailureHandled ==
    (fwd.pc # "none" /\ CopyHasFailed) =>
        /\ HookCalls(fwd.err) =
              (IF rp.onError /\ ~isClosedConnError(fwd.err) THEN 1 ELSE 0)
        /\ rp.pc \in {"ProxyHTTP", "done"}
        /\ rp.rw.status = StatusOK /\ rp.rw.from = "upstream" /\ rp.rw.text = ""
        /\ fwd.closed
        /\ fwd.pc = "returned" => fwd.reqDone

C30_CopyFailureReportedOnce ==
    /\ []CopyFailureHandled
    /\ (fwd.pc # "none" /\ CopyHasFailed)
          ~> (fwd.pc = "returned" /\ CopyHasFailed)

\* a write to the client failed with an error that is not a closed
\* connection, after a part of the body was delivered: the hook has it,
\* the status is the upstream's, and ServeHTTP has returned
C30_Witness ==
    /\ rp.pc = "done" /\ fwd.pc = "returned"
    /\ fwd.err = ErrNoRoute
    /\ rp.errors = <<ErrNoRoute>>
    /\ rp.rw.status = StatusOK
    /\ rp.rw.body # <<>> /\ Len(rp.rw.body) < Len(fwd.body)
    /\ fwd.closed

(***************************************************************************)
(* C31: after the director has run, the outbound request's Host equals the *)
(* rewritten URL host, and if the inbound request carried no User-Agent    *)
(* header the outbound request carries a User-Agent header with a          *)
(* non-empty value, while an inbound User-Agent that was present is left   *)
(* unchanged.                                                              *)
(***************************************************************************)
\* the header has the key with a first value that is not ""
HasNonEmpty(header, key) ==
    /\ key \in DOMAIN header
    /\ Len(header[key]) > 0
    /\ header[key][1] # <<>>

C31_HostAndUserAgent ==
    dir.pc = "done" =>
        /\ dir.out.Host = dir.out.URL.Host
        /\ dir.out.Host = dir.target.Host
        /\ UserAgent \notin DOMAIN dir.req.Header
              => HasNonEmpty(dir.out.Header, UserAgent)
        /\ UserAgent \in DOMAIN dir.req.Header
              => dir.out.Header = dir.req.Header

(***************************************************************************)
(* C32: each pass of the background sweep, run under the exclusive lock,   *)
(* deletes every entry whose expireAt is earlier than the pass's timestamp *)
(* and deletes no entry whose expireAt is later (nor one whose expireAt is *)
(* that timestamp); the sweep never changes the fields of an entry it      *)
(* keeps, and a GetBasicAuth lookup never sees a partially swept map.      *)
(***************************************************************************)
InPass == sweeper.pc = "sweep"

\* the entries the pass has visited and left in the map
Visited == DOMAIN cache \ sweeper.todo

\* during a pass: the lock is held exclusively, no lookup reads the map,
\* every entry still to visit is in the map, and no entry already visited
\* expired before the timestamp of the pass
SweepUnderLock ==
    InPass =>
        /\ mu.writer /\ mu.readers = 0
        /\ \A p \in Procs : pc[p] \notin {"reading", "writing"}
        /\ sweeper.todo \subseteq DOMAIN cache
        /\ \A k \in Visited : cache[k].expireAt >= sweeper.at

\* a step taken while the pass holds the lock changes the map only by
\* deleting one expired entry, the one it visits
SweepStep ==
    InPass =>
        /\ \A k \in DOMAIN cache' : k \in DOMAIN cache /\ cache'[k] = cache[k]
        /\ \A k \in DOMAIN cache \ DOMAIN cache' :
              /\ cache[k].expireAt < sweeper.at
              /\ sweeper.todo \ sweeper'.todo = {k}
        /\ \A k \in sweeper.todo \ sweeper'.todo :
              (k \in DOMAIN cache') = (cache[k].expireAt >= sweeper.at)
        /\ sweeper'.pc = "wait" => sweeper.todo = {}

C32_SweepDeletesExpiredOnly ==
    /\ []SweepUnderLock
    /\ [][SweepStep]_vars

\* a pass in the middle of the map: an entry visited and kept, whose
\* expireAt is the timestamp of the pass or later, an expired entry still
\* to visit, and a GetBasicAuth call waiting for the shared lock
C32_Witness ==
    /\ InPass
    /\ \E k \in Visited : cache[k].expireAt >= sweeper.at
    /\ \E k \in sweeper.todo : cache[k].expireAt < sweeper.at
    /\ \E p \in Procs : pc[p] = "rlock"

(***************************************************************************)
(* C33: GetBasicAuth changes the cache only on a miss: a call with an      *)
(* empty token and a call that hits an unexpired entry leave the whole     *)
(* cache unchanged, so an entry's expireAt is never refreshed by hits and  *)
(* the entry expires exactly one TTL after it was stored however often it  *)
(* is used; a miss writes only the entry keyed by that exact raw token,    *)
(* with expireAt = store time + TTL.                                       *)
(***************************************************************************)
\* the step in which the call of p stores: it missed, parsed and holds the
\* exclusive lock
Stores(p) == pc[p] = "writing" /\ pc'[p] = "returned"

\* a step of the call of p
Steps(p) == pc'[p] # pc[p]

\* what the store of p leaves in the map: the entry of its token, made now
StoredBy(p) ==
    [k \in DOMAIN cache \cup {tok[p]} |->
        IF k = tok[p]
        THEN [valid |-> res[p].ok, username |-> res[p].username,
              password |-> res[p].password, expireAt |-> now + CacheDuration]
        ELSE cache[k]]

CacheWrittenOnMissOnly ==
    /\ \A p \in Procs :
          /\ Steps(p) /\ ~Stores(p) => cache' = cache
          /\ Stores(p) =>
                /\ tok[p] # EmptyToken /\ parsed[p] /\ ~hit[p]
                /\ res[p] = parseBasicAuth(tok[p])
                /\ cache' = StoredBy(p)
          /\ hit'[p] \/ tok'[p] = EmptyToken => ~Stores(p) /\ pc'[p] # "wlock"
    /\ \A k \in DOMAIN cache \cap DOMAIN cache' :
          cache'[k] # cache[k] => \E p \in Procs : Stores(p) /\ tok[p] = k
    /\ \A k \in DOMAIN cache' \ DOMAIN cache :
          \E p \in Procs : Stores(p) /\ tok[p] = k

C33_CacheWrittenOnMissOnly == [][CacheWrittenOnMissOnly]_vars

\* a call has hit the entry of its token some time after it was stored,
\* next to the entry of another token, and the entry still expires one
\* TTL after its store
C33_Witness ==
    \E p \in Procs :
        /\ pc[p] = "returned" /\ hit[p]
        /\ Cardinality(DOMAIN cache) = 2
        /\ cache[tok[p]].expireAt < now + CacheDuration
        /\ cache[tok[p]].expireAt > now

(***************************************************************************)
(* C34: in the forwarding path the error hook is invoked at most once per  *)
(* request (and so no two of its invocations for one request run at the    *)
(* same time), in every interleaving of the client-disconnect watcher with *)
(* the error reports of the handler for the round trip, the response       *)
(* modifier and the body copy.                                             *)
(***************************************************************************)
\* the invocations of the error hook for the request so far
HookInvocations == Len(rp.errors)

C34_HookAtMostOnce ==
    (rp.pc # "none" /\ fwd.pc # "none") => HookInvocations <= 1
====
